---- MODULE Spec2Model ----
(***************************************************************************)
(* Model of the UltraHuman uploader (src/ultrahuman/uh_uploader.py), its   *)
(* metric fetch (src/ultrahuman/uh.py) and its error classification        *)
(* (src/ultrahuman/error_handling.py).                                     *)
(*                                                                         *)
(* One participant is synchronised by any number of serialized Lambda     *)
(* invocations.  An invocation walks the calendar days from the persisted  *)
(* uh_sync_date (or uh_start_date) to target_date; every external call     *)
(* (connection initialisation, metric fetch, raw JSON archive, parquet     *)
(* upload, MDH custom-field update, DLQ send) is one step whose outcome    *)
(* is chosen nondeterministically.                                         *)
(*                                                                         *)
(* Calendar days are the integers 1..MaxDay; the timestamps the vendor     *)
(* reports for day d lie in Base(d)+1 .. Base(d)+TsPerDay.                 *)
(***************************************************************************)
EXTENDS Integers, Sequences, FiniteSets, Bags, TLC

\* ---------------------------------------------------------------- bounds
MaxDay == 2
TsPerDay == 2
MaxFailures == 1
MaxLen == 2          \* longest list in a JSON object handed to the flattener
MaxCalls == 2        \* calls of convert_dict_timestamps on one structure

\* ------------------------------------------------------------- constants
\* An optional value (Python None, a missing key) is the empty set; a value
\* that is there is the set holding it.
None == {}
Some(x) == {x}
The(o) == CHOOSE x \in o : TRUE

WHITELISTED_TABLES ==
    {"avg_sleep_hrv", "hr", "hr_graph", "hrv", "movement_graph", "night_rhr",
     "quick_metrics", "quick_metrics_tiled", "sleep_graph", "sleep_stages",
     "steps", "temp"}

Days == 1..MaxDay
Base(d) == (d - 1) * TsPerDay

\* ------------------------------------------------------- vendor payloads
\* A metric of metric_data: its type, the timestamps of its rows in list
\* order, the column of the flattened metric that holds them, and (for the
\* Sleep type) the sub-keys of its object in dictionary order, each with
\* the timestamps of its own rows. The rows of object.values come out in
\* column object_values_timestamp; a sub-key that keeps its rows under
\* another key (object.data) has them in another column.
ValuesColumn == "object_values_timestamp"
DataColumn == "object_data_timestamp"
Metric(t, vals) ==
    [type |-> t, values |-> vals, sub |-> <<>>, column |-> ValuesColumn]
SubKey(k, vals) == [key |-> k, values |-> vals, column |-> ValuesColumn]
GraphKey(k, vals) == [key |-> k, values |-> vals, column |-> DataColumn]
SleepMetric(subs) ==
    [type |-> "Sleep", values |-> <<>>, sub |-> subs, column |-> ValuesColumn]

\* The payloads the vendor may answer with for day d (data.metric_data).
DayPayloads(d) ==
    LET a == Base(d) + 1
        b == Base(d) + 2
        late == IF d > 1 THEN Base(d) - 1 ELSE a   \* a value of the day before
    IN { << Metric("hr", <<a>>) >>,
         << Metric("temp", <<late>>), Metric("hr", <<a>>) >>,
         << Metric("temp", <<>>), Metric("hr", <<a>>) >>,
         << Metric("hr", <<late, b>>), Metric("spo2", <<a>>), Metric("temp", <<a>>) >>,
         << Metric("temp", <<a, b>>) >>,
         << SleepMetric(<< SubKey("hrv", <<b>>), SubKey("bedtime_start", <<>>),
                           SubKey("spo2", <<a>>),
                           GraphKey("hr_graph", <<late>>) >>),
            Metric("temp", <<b, a>>) >> }

\* ---------------------------------------------------------------- errors
\* An exception, by what is_retryable_error looks at: its class, the HTTP
\* status of error.response (None when there is no response.status_code),
\* the AWS error code (ClientError) and the keywords its message holds.
Err(c, s, code, kw) == [cls |-> c, status |-> s, code |-> code, msg |-> kw]
NoCode == ""

RequestExceptionClasses ==
    {"RequestException", "HTTPError", "ConnectionError", "Timeout",
     "ConnectTimeout", "ReadTimeout", "JSONDecodeError"}

NetworkClasses == {"ConnectionError", "Timeout", "ConnectTimeout", "ReadTimeout"}

\* Mutant of is_retryable_error: the class of the exception is looked at
\* before its status code.
is_retryable_error_class_first(e) ==
    IF e.cls \in RequestExceptionClasses THEN e.cls \in NetworkClasses
    ELSE IF e.status # None /\ (The(e.status) >= 500 \/ The(e.status) = 429) THEN TRUE
    ELSE FALSE

\* Mutant of is_retryable_error: an error no rule decides is retried.
is_retryable_error_default_retry(e) ==
    IF e.status # None /\ (The(e.status) >= 500 \/ The(e.status) = 429) THEN TRUE
    ELSE IF e.status # None /\ The(e.status) >= 400 /\ The(e.status) < 500 THEN FALSE
    ELSE IF e.cls \in NetworkClasses THEN TRUE
    ELSE IF e.msg \cap {"validation", "parse", "json", "schema", "format"} # {} THEN FALSE
    ELSE TRUE

\* Mutant of is_retryable_error: a requests exception that is no connection
\* or timeout failure is left to the later rules.
is_retryable_error_falls_through(e) ==
    IF e.status # None /\ (The(e.status) >= 500 \/ The(e.status) = 429) THEN TRUE
    ELSE IF e.status # None /\ The(e.status) >= 400 /\ The(e.status) < 500 THEN FALSE
    ELSE IF e.cls \in NetworkClasses THEN TRUE
    ELSE IF e.cls = "ClientError"
            /\ e.code \in {"Throttling", "ThrottledException",
                           "ServiceUnavailable", "InternalServerError"}
         THEN TRUE
    ELSE IF e.cls = "ClientError"
            /\ e.code \in {"ValidationException", "InvalidParameterException",
                           "AccessDenied"}
         THEN FALSE
    ELSE IF e.msg \cap {"connection", "timeout", "network", "dns"} # {} THEN TRUE
    ELSE FALSE

\* Mutant of is_retryable_error: the rule for the requests exceptions is
\* missing.
is_retryable_error_no_network_rule(e) ==
    IF e.status # None /\ (The(e.status) >= 500 \/ The(e.status) = 429) THEN TRUE
    ELSE IF e.status # None /\ The(e.status) >= 400 /\ The(e.status) < 500 THEN FALSE
    ELSE IF e.cls = "ClientError"
            /\ e.code \in {"Throttling", "ThrottledException",
                           "ServiceUnavailable", "InternalServerError"}
         THEN TRUE
    ELSE IF e.cls = "ClientError"
            /\ e.code \in {"ValidationException", "InvalidParameterException",
                           "AccessDenied"}
         THEN FALSE
    ELSE IF e.msg \cap {"connection", "timeout", "network", "dns"} # {} THEN TRUE
    ELSE FALSE

\* Mutant of is_retryable_error: the rule for the AWS service errors is
\* missing.
is_retryable_error_no_service_rule(e) ==
    IF e.status # None /\ (The(e.status) >= 500 \/ The(e.status) = 429) THEN TRUE
    ELSE IF e.status # None /\ The(e.status) >= 400 /\ The(e.status) < 500 THEN FALSE
    ELSE IF e.cls \in RequestExceptionClasses THEN e.cls \in NetworkClasses
    ELSE IF e.msg \cap {"connection", "timeout", "network", "dns"} # {} THEN TRUE
    ELSE FALSE

\* Mutant of is_retryable_error: the validation keywords are tested before
\* the connectivity keywords.
is_retryable_error_validation_first(e) ==
    IF e.status # None /\ (The(e.status) >= 500 \/ The(e.status) = 429) THEN TRUE
    ELSE IF e.status # None /\ The(e.status) >= 400 /\ The(e.status) < 500 THEN FALSE
    ELSE IF e.cls \in RequestExceptionClasses THEN e.cls \in NetworkClasses
    ELSE IF e.cls = "ClientError"
            /\ e.code \in {"Throttling", "ThrottledException",
                           "ServiceUnavailable", "InternalServerError"}
         THEN TRUE
    ELSE IF e.cls = "ClientError"
            /\ e.code \in {"ValidationException", "InvalidParameterException",
                           "AccessDenied"}
         THEN FALSE
    ELSE IF e.msg \cap {"validation", "parse", "json", "schema", "format"} # {} THEN FALSE
    ELSE IF e.msg \cap {"connection", "timeout", "network", "dns"} # {} THEN TRUE
    ELSE FALSE

\* is_retryable_error: True = Retryable, False = NonRetryable.
is_retryable_error(e) ==
    IF e.status # None /\ (The(e.status) >= 500 \/ The(e.status) = 429) THEN TRUE
    ELSE IF e.status # None /\ The(e.status) >= 400 /\ The(e.status) < 500 THEN FALSE
    ELSE IF e.cls \in RequestExceptionClasses
         THEN e.cls \in {"ConnectionError", "Timeout", "ConnectTimeout", "ReadTimeout"}
    ELSE IF e.cls = "ClientError"
            /\ e.code \in {"Throttling", "ThrottledException",
                           "ServiceUnavailable", "InternalServerError"}
         THEN TRUE
    ELSE IF e.cls = "ClientError"
            /\ e.code \in {"ValidationException", "InvalidParameterException",
                           "AccessDenied"}
         THEN FALSE
    ELSE IF e.msg \cap {"connection", "timeout", "network", "dns"} # {} THEN TRUE
    ELSE IF e.msg \cap {"validation", "parse", "json", "schema", "format"} # {} THEN FALSE
    ELSE FALSE

\* The failures of requests.get / raise_for_status / response.json inside
\* get_metrics, before get_metrics wraps them.
FetchErrors ==
    { Err("HTTPError", Some(503), NoCode, {}),
      Err("HTTPError", Some(429), NoCode, {}),
      Err("HTTPError", Some(404), NoCode, {}),
      Err("ConnectionError", None, NoCode, {"connection"}),
      Err("ReadTimeout", None, NoCode, {"connection", "timeout"}),
      Err("JSONDecodeError", None, NoCode, {}),
      Err("TimeoutError", None, NoCode, {"timeout"}) }

\* get_metrics: a RequestException is replaced by a new, bare
\* requests.RequestException carrying the old message and no response; a
\* ValueError is replaced by ValueError("Invalid JSON response: ..."); any
\* other exception leaves get_metrics as it is.
get_metrics_raises(e) ==
    IF e.cls \in RequestExceptionClasses
    THEN Err("RequestException", None, NoCode, e.msg)
    ELSE IF e.cls = "ValueError"
    THEN Err("ValueError", None, NoCode, e.msg \cup {"json"})
    ELSE e

\* The failures of MDH(...) / UltrahumanAPI(...) in _initialize_connections.
InitErrors ==
    { Err("ConnectionError", None, NoCode, {"connection"}),
      Err("HTTPError", Some(401), NoCode, {}),
      Err("ValueError", None, NoCode, {}) }

\* ------------------------------------------------------- pure helpers
\* values[-1].get('timestamp', 0) if len(values) > 0 else 0
LastTimestamp(vals) == IF Len(vals) > 0 THEN vals[Len(vals)] ELSE 0

\* mmap of _collect_and_upload_participant_data: metric type -> count and
\* last timestamp of object.values; a later metric of the same type
\* overwrites an earlier one.
mmap(data) ==
    [t \in {data[i].type : i \in DOMAIN data} |->
        LET i == CHOOSE k \in DOMAIN data :
                    /\ data[k].type = t
                    /\ \A j \in DOMAIN data : j > k => data[j].type # t
        IN [count |-> Len(data[i].values),
            last_timestamp |-> LastTimestamp(data[i].values)]]

\* "temp" is the anchor: the day is left alone when it is missing or empty.
AnchorMissing(data) ==
    ("temp" \notin DOMAIN mmap(data)) \/ mmap(data)["temp"].count <= 0

\* Mutant of AnchorCaughtUp: the guard is lost and every day that has
\* anchor values is processed.
AnchorCaughtUpNever(data, epoch) == FALSE

\* last_uh_timestamp >= mmap['temp']['last_timestamp']
AnchorCaughtUp(data, epoch) == epoch >= mmap(data)["temp"].last_timestamp

RECURSIVE SleepWork(_)
\* The whitelisted sub-keys of a Sleep object, each as a metric of its own.
SleepWork(subs) ==
    IF subs = <<>> THEN <<>>
    ELSE IF Head(subs).key \in WHITELISTED_TABLES
         THEN <<[Metric(Head(subs).key, Head(subs).values)
                     EXCEPT !.column = Head(subs).column]>>
              \o SleepWork(Tail(subs))
         ELSE SleepWork(Tail(subs))

\* Mutant of WorkList: every metric of the payload is processed.
WorkListUnfiltered(data) == data

RECURSIVE WorkList(_)
\* The calls of _process_metric_data the metric loop of one day makes, in
\* order: Sleep is replaced by its whitelisted sub-keys, a metric that is
\* not whitelisted is skipped.
WorkList(data) ==
    IF data = <<>> THEN <<>>
    ELSE IF Head(data).type = "Sleep"
         THEN SleepWork(Head(data).sub) \o WorkList(Tail(data))
    ELSE IF Head(data).type \in WHITELISTED_TABLES
         THEN <<Head(data)>> \o WorkList(Tail(data))
    ELSE WorkList(Tail(data))

\* if uh_sync_timestamp is not None and 'object_values_timestamp' in
\* df.columns: df = df[df['object_values_timestamp'] > uh_sync_timestamp]
NewRows(metric, epoch) ==
    LET Newer(ts) == ts > epoch
    IN IF metric.column = ValuesColumn THEN SelectSeq(metric.values, Newer)
       ELSE metric.values

RECURSIVE RowBag(_, _)
\* The rows of one parquet upload, as they are appended to table t.
RowBag(t, rows) ==
    IF rows = <<>> THEN EmptyBag
    ELSE SetToBag({[table |-> t, ts |-> Head(rows)]}) (+) RowBag(t, Tail(rows))

\* Mutant of SyncEpochOf: the stored epoch is never taken as numeric.
SyncEpochZero(x) == 0

\* A custom field of MDH is a string or is missing (None).  A date field
\* holds '' or the ISO date of a day (Some(d)); uh_sync_epoch holds the
\* text of an integer (Some(n)), which is numeric for str.isnumeric when it
\* is a run of digits, that is when n >= 0.
EmptyString == 0
NonNumeric == -1

\* int(uh_sync_epoch) if uh_sync_epoch.isnumeric() else 0, on
\* custom_fields.get('uh_sync_epoch', '')
SyncEpochOf(x) == IF x # None /\ The(x) >= 0 THEN The(x) ELSE 0

\* Mutant of StartDateOf: uh_start_date is looked at first.
StartDateOfStartFirst(cf) ==
    IF cf.uh_start_date \notin {None, Some(EmptyString)} THEN cf.uh_start_date
    ELSE IF cf.uh_sync_date \notin {None, Some(EmptyString)} THEN cf.uh_sync_date
    ELSE None

\* uh_sync_date, falling back to uh_start_date when it is None or '';
\* None when that is None or '' too.
StartDateOf(cf) ==
    IF cf.uh_sync_date \notin {None, Some(EmptyString)} THEN cf.uh_sync_date
    ELSE IF cf.uh_start_date \notin {None, Some(EmptyString)} THEN cf.uh_start_date
    ELSE None

\* ----------------------------------------------------------------- state
VARIABLES
    mdh,                \* customFields of the participant in MDH (persisted watermark)
    vendor,             \* the vendor's payload of each day (None until first fetched)
    sink,               \* bag of the rows appended to the parquet tables
    archive,            \* the raw JSON objects this invocation put in the archive
    dlq,                \* records this invocation delivered to the dead letter queue
    rerun,              \* this invocation repeats a clean run with the same target_date
    pc,                 \* position of the running invocation
    dry_run,            \* self.dry_run
    target_date,        \* target_date of the SNS message
    uh_sync_date,       \* loop variable: the day being processed
    last_uh_timestamp,  \* loop variable: the sync epoch in effect
    record_count,       \* total record count of all days
    metrics_data,       \* data['metric_data'] of the fetched day
    work,               \* _process_metric_data calls still to make today
    response,           \* what lambda_handler did: "", "200", "500", "RetryableError"
    result,             \* the participant result of _collect_and_upload_participant_data
    failures,           \* injected non-fatal failures so far
    failed,             \* the calls that failed in this invocation
    fetched,            \* days fetched by this invocation, in order
    dayRows,            \* rows uploaded while processing the current day
    dayUploadFailed,    \* a parquet upload of the current day failed
    dayLog,             \* the days this invocation processed to their end
    lastError,          \* the error handled by handle_api_error in this invocation
    dlqSends,           \* calls of send_to_dlq in this invocation
    start,              \* mdh and sink when the invocation started
    suspended,          \* the invocation that was cut off or is waiting (None: none)
    error,              \* the exception handed to is_retryable_error
    verdict,            \* what is_retryable_error returned for it
    json_arg,           \* the object flatten_json_to_columns was called with
    json_data,          \* that object as the call left it
    fill,               \* fill of flatten_json_to_columns
    participant_id,     \* participant_id of flatten_json_to_columns
    flattened,          \* the mapping flatten_json_to_columns returned
    ts_arg,             \* the structure convert_dict_timestamps was called with
    ts_data,            \* that structure as the calls left it
    timezone,           \* timezone of convert_dict_timestamps
    converted,          \* what the calls of convert_dict_timestamps returned, in order
    sleep_arg,          \* the object of the payload's Sleep metric, as fetched
    sleep_obj,          \* that object as the metric loop has left it
    sleep_pos,          \* position of the loop over sleep_obj.items()
    sleep_calls,        \* the calls of _process_metric_data made for the Sleep metric
    sleep_pc,           \* "" (no Sleep metric), "items", "done", "UnboundLocalError"
    result_bound,       \* the local variable result has been assigned
    sns_records,        \* the SNS records process_sns_messages was called with
    sns_pc,             \* "" (no call), "init", "records", "returned"
    sns_pos,            \* position of the loop over sns_records
    results,            \* results of process_sns_messages
    successful_uploads, \* its counter of participants that succeeded
    failed_uploads,     \* its counter of participants that failed
    total_data_size,    \* its sum of the record counts
    summary             \* the dictionary process_sns_messages returned

vars == <<mdh, vendor, sink, archive, dlq, rerun, pc, dry_run, target_date,
          uh_sync_date, last_uh_timestamp, record_count, metrics_data, work,
          response, result, failures, failed, fetched, dayRows, dayUploadFailed,
          dayLog, lastError, dlqSends, start, suspended, error, verdict, json_arg,
          json_data, fill, participant_id, flattened, ts_arg, ts_data,
          timezone, converted, sleep_arg, sleep_obj, sleep_pos, sleep_calls,
          sleep_pc, result_bound, sns_records, sns_pc, sns_pos, results,
          successful_uploads, failed_uploads, total_data_size, summary>>

store == <<mdh, sink>>
flattenVars == <<json_arg, json_data, fill, participant_id, flattened>>
convertVars == <<ts_arg, ts_data, timezone, converted>>
sleepVars == <<sleep_arg, sleep_obj, sleep_pos, sleep_calls, sleep_pc, result_bound>>
batchVars == <<sns_records, sns_pc, sns_pos, results, successful_uploads,
               failed_uploads, total_data_size, summary>>
pure == <<error, verdict, flattenVars, convertVars, sleepVars, batchVars>>
loopVars == <<uh_sync_date, last_uh_timestamp, record_count, metrics_data, work>>
dayHist == <<dayRows, dayUploadFailed, dayLog>>

NoFields == [uh_start_date |-> None, uh_sync_date |-> None, uh_sync_epoch |-> None]

\* No invocation has started and no call of a helper is under way.
Quiet ==
    /\ vendor = [d \in Days |-> None]
    /\ sink = EmptyBag
    /\ archive = {}
    /\ dlq = 0
    /\ rerun = FALSE
    /\ pc = "idle"
    /\ dry_run = FALSE
    /\ target_date = 1
    /\ uh_sync_date = 1
    /\ last_uh_timestamp = 0
    /\ record_count = 0
    /\ metrics_data = <<>>
    /\ work = <<>>
    /\ response = ""
    /\ result = None
    /\ failures = 0
    /\ failed = {}
    /\ fetched = <<>>
    /\ dayRows = 0
    /\ dayUploadFailed = FALSE
    /\ dayLog = <<>>
    /\ lastError = None
    /\ dlqSends = 0
    /\ start = [mdh |-> mdh, sink |-> sink]
    /\ suspended = None

\* No helper function is being called on its own.
NoClassify ==
    /\ error = None
    /\ verdict = None

NoFlatten ==
    /\ json_arg = None
    /\ json_data = None
    /\ fill = FALSE
    /\ participant_id = None
    /\ flattened = None

NoConvert ==
    /\ ts_arg = None
    /\ ts_data = None
    /\ timezone = None
    /\ converted = <<>>

NoSleep ==
    /\ sleep_arg = None
    /\ sleep_obj = None
    /\ sleep_pos = 0
    /\ sleep_calls = <<>>
    /\ sleep_pc = ""
    /\ result_bound = FALSE

NoBatch ==
    /\ sns_records = <<>>
    /\ sns_pc = ""
    /\ sns_pos = 0
    /\ results = <<>>
    /\ successful_uploads = 0
    /\ failed_uploads = 0
    /\ total_data_size = 0
    /\ summary = None

NoCall == NoClassify /\ NoFlatten /\ NoConvert /\ NoSleep /\ NoBatch

Init ==
    /\ mdh \in {NoFields,
                [NoFields EXCEPT !.uh_start_date = Some(1)],
                [NoFields EXCEPT !.uh_start_date = Some(1), !.uh_sync_date = Some(MaxDay)]}
    /\ Quiet
    /\ NoCall

\* ------------------------------------------------------- error handling
\* Mutant of handle_api_error: a NonRetryable error is logged and dropped.
handle_api_error_drops(raw, e, operation) ==
    [raw |-> raw, error |-> e, operation |-> operation,
     retryable |-> is_retryable_error(e),
     raised |-> is_retryable_error(e),
     sent |-> FALSE]

\* Mutant of handle_api_error: RetryableError is raised for every error.
handle_api_error_raises(raw, e, operation) ==
    [raw |-> raw, error |-> e, operation |-> operation,
     retryable |-> is_retryable_error(e),
     raised |-> TRUE,
     sent |-> FALSE]

\* handle_api_error, as a record of what it did: the classification, and
\* whether it raised RetryableError or called send_to_dlq.
handle_api_error(raw, e, operation) ==
    [raw |-> raw, error |-> e, operation |-> operation,
     retryable |-> is_retryable_error(e),
     raised |-> is_retryable_error(e),
     sent |-> ~is_retryable_error(e)]

\* send_to_dlq delivers one record when UH_DLQ_URL is configured and the
\* queue answers; otherwise it logs and returns.
DlqAfter(h, delivered) == IF h.sent /\ delivered THEN 1 ELSE 0

\* The participant result dictionaries.
Success(n) == Some([success |-> TRUE, record_count |-> n, error |-> ""])
Failure(why) == Some([success |-> FALSE, record_count |-> 0, error |-> why])

\* ------------------------------------------------------------ invocation
\* The invocation is over, it was no dry run, no call failed in it and the
\* day loop ran to its end.
CleanRun ==
    pc = "done" /\ ~dry_run /\ failed = {} /\ result = Success(record_count)

\* lambda_handler starts: the uploader is built and dry_run is set.
NewInvocation(dr, td) ==
    /\ pc \in {"idle", "done"}
    /\ rerun' = (CleanRun /\ td = target_date)
    /\ dry_run' = dr
    /\ target_date' = td
    /\ metrics_data' = <<>>
    /\ work' = <<>>
    /\ record_count' = 0
    /\ fetched' = <<>>
    /\ dayRows' = 0
    /\ dayUploadFailed' = FALSE
    /\ dayLog' = <<>>
    /\ archive' = {}
    /\ start' = [mdh |-> mdh, sink |-> sink]
    /\ UNCHANGED <<store, vendor, failures, pure, suspended>>

\* _initialize_connections fails: handle_api_error raises RetryableError or
\* sends to the DLQ and the error is raised again; process_sns_messages
\* catches either and returns success False, so lambda_handler answers 500.
InitializeConnectionsFail(errors) ==
    \E dr \in BOOLEAN, e \in errors :
    \E delivered \in {TRUE, is_retryable_error(e)} :
        LET h == handle_api_error(e, e, "initialize_connections") IN
        /\ NewInvocation(dr, target_date)
        /\ failed' = {"init"}
        /\ lastError' = Some(h)
        /\ dlqSends' = IF h.sent THEN 1 ELSE 0
        /\ dlq' = DlqAfter(h, delivered)
        /\ result' = None
        /\ response' = "500"
        /\ pc' = "done"
        /\ UNCHANGED <<uh_sync_date, last_uh_timestamp>>

\* Connections are up; the SNS record is parsed and
\* _collect_and_upload_participant_data reads the watermark.
StartSync ==
    \E dr \in BOOLEAN, td \in Days :
        /\ NewInvocation(dr, td)
        /\ failed' = {}
        /\ lastError' = None
        /\ dlqSends' = 0
        /\ dlq' = 0
        /\ IF StartDateOf(mdh) = None
           THEN /\ result' = Failure("Neither uh_sync_timestamp or uh_start_date is set")
                /\ response' = "200"
                /\ pc' = "done"
                /\ UNCHANGED <<uh_sync_date, last_uh_timestamp>>
           ELSE /\ uh_sync_date' = The(StartDateOf(mdh))
                /\ last_uh_timestamp' = SyncEpochOf(mdh.uh_sync_epoch)
                /\ result' = None
                /\ response' = ""
                /\ pc' = "loop"

\* while uh_sync_date <= target_date: the loop ends.
LoopExit ==
    /\ pc = "loop"
    /\ ~(uh_sync_date <= target_date)
    /\ result' = Success(record_count)
    /\ response' = "200"
    /\ pc' = "done"
    /\ UNCHANGED <<store, archive, vendor, dlq, rerun, dry_run, target_date,
                   loopVars, failures, failed, fetched, dayHist, lastError,
                   dlqSends, start, pure, suspended>>

\* get_metrics answers with the day's payload.
FetchOk ==
    /\ pc = "loop"
    /\ uh_sync_date <= target_date
    /\ \E p \in (IF vendor[uh_sync_date] = None THEN DayPayloads(uh_sync_date)
                 ELSE vendor[uh_sync_date]) :
        /\ vendor' = [vendor EXCEPT ![uh_sync_date] = Some(p)]
        /\ metrics_data' = p
    /\ fetched' = Append(fetched, uh_sync_date)
    /\ pc' = "fetched"
    /\ UNCHANGED <<store, archive, dlq, rerun, dry_run, target_date, uh_sync_date,
                   last_uh_timestamp, record_count, work, response, result,
                   failures, failed, dayHist, lastError, dlqSends, start, pure, suspended>>

\* get_metrics raises.  A Retryable error leaves
\* _collect_and_upload_participant_data as RetryableError and is caught by
\* the per-record except of process_sns_messages; a NonRetryable one is
\* sent to the DLQ and the participant result is a failure.  Either way
\* process_sns_messages returns success True and lambda_handler answers 200.
FetchFail(errors) ==
    /\ pc = "loop"
    /\ uh_sync_date <= target_date
    /\ \E e \in errors :
       \E delivered \in {TRUE, is_retryable_error(get_metrics_raises(e))} :
        LET h == handle_api_error(e, get_metrics_raises(e), "uh_api_get_metrics") IN
        /\ lastError' = Some(h)
        /\ dlqSends' = IF h.sent THEN dlqSends + 1 ELSE dlqSends
        /\ dlq' = DlqAfter(h, delivered)
        /\ result' = IF h.raised THEN Failure("SNS processing error")
                     ELSE Failure("Non-retryable UH API error")
    /\ fetched' = Append(fetched, uh_sync_date)
    /\ failed' = failed \cup {"fetch"}
    /\ response' = "200"
    /\ pc' = "done"
    /\ UNCHANGED <<store, archive, vendor, rerun, dry_run, target_date, loopVars,
                   failures, dayHist, start, pure, suspended>>

\* --------------------------------------------------------- one day
\* Mutant of NextDay: the loop steps over a day.
NextDaySkips(d) == d + 2

\* uh_sync_date += datetime.timedelta(days=1)
NextDay(d) == d + 1

\* Mutant of SkipsUpload: every run returns before the upload.
SkipsUploadAlways == TRUE

\* Mutant of SkipsUpload: the dry-run return before the upload is missing.
SkipsUploadNever == FALSE

\* if self.dry_run: return {'record_count': len(df), ...}   (_process_metric_data)
SkipsUpload == dry_run

\* Mutant of AnchorSkip: the anchor is not looked at.
AnchorSkipNever == FALSE

\* _upload_json_data archives the raw payload (not in a dry run; a failure
\* is logged), then the anchor decides whether the day is processed.
AnchorSkip ==
    AnchorMissing(metrics_data) \/ AnchorCaughtUp(metrics_data, last_uh_timestamp)

\* Mutant of SkipsArchive: the raw payload is archived after the anchor has
\* decided, for the days that are processed only.
SkipsArchiveOfSkippedDay == dry_run \/ AnchorSkip

\* if self.dry_run: return True            (_upload_json_data)
SkipsArchive == dry_run

\* The object wr.s3.upload writes: json.dumps(json_obj) under
\* raw/json/pid=<participant>/date=<day>/data.json (one participant here).
ArchiveObject(d, json_obj) == [date |-> d, data |-> json_obj]

UploadJson(mayFail) ==
    /\ pc = "fetched"
    /\ \/ /\ SkipsArchive
          /\ UNCHANGED <<archive, failures, failed>>
       \/ /\ ~SkipsArchive
          /\ archive' = archive \cup {ArchiveObject(uh_sync_date, metrics_data)}
          /\ UNCHANGED <<failures, failed>>
       \/ /\ ~SkipsArchive
          /\ mayFail
          /\ failures < MaxFailures
          /\ failures' = failures + 1
          /\ failed' = failed \cup {"archive"}
          /\ UNCHANGED archive
    /\ IF AnchorSkip
       THEN /\ uh_sync_date' = NextDay(uh_sync_date)
            /\ pc' = "loop"
            /\ UNCHANGED <<work, dayRows, dayUploadFailed>>
       ELSE /\ work' = WorkList(metrics_data)
            /\ dayRows' = 0
            /\ dayUploadFailed' = FALSE
            /\ pc' = "metrics"
            /\ UNCHANGED uh_sync_date
    /\ UNCHANGED <<mdh, sink, vendor, dlq, rerun, dry_run, target_date,
                   last_uh_timestamp, record_count, metrics_data, response,
                   result, fetched, dayLog, lastError, dlqSends, start, pure, suspended>>

\* One call of _process_metric_data: the rows newer than the sync epoch are
\* counted (dry run), or appended to the metric's table; a failed parquet
\* upload is logged and counts no rows.
ProcessMetric ==
    /\ pc = "metrics"
    /\ work # <<>>
    /\ LET m == Head(work)
           rows == NewRows(m, last_uh_timestamp)
       IN \/ /\ rows = <<>>
             /\ UNCHANGED <<sink, record_count, dayRows, dayUploadFailed,
                            failures, failed>>
          \/ /\ rows # <<>>
             /\ SkipsUpload
             /\ record_count' = record_count + Len(rows)
             /\ UNCHANGED <<sink, dayRows, dayUploadFailed, failures, failed>>
          \/ /\ rows # <<>>
             /\ ~SkipsUpload
             /\ sink' = sink (+) RowBag(m.type, rows)
             /\ record_count' = record_count + Len(rows)
             /\ dayRows' = dayRows + Len(rows)
             /\ UNCHANGED <<dayUploadFailed, failures, failed>>
          \/ /\ rows # <<>>
             /\ ~SkipsUpload
             /\ failures < MaxFailures
             /\ failures' = failures + 1
             /\ dayUploadFailed' = TRUE
             /\ failed' = failed \cup {"upload"}
             /\ UNCHANGED <<sink, record_count, dayRows>>
    /\ work' = Tail(work)
    /\ UNCHANGED <<mdh, archive, vendor, dlq, rerun, pc, dry_run, target_date,
                   uh_sync_date, last_uh_timestamp, metrics_data, response,
                   result, fetched, dayLog, lastError, dlqSends, start, pure, suspended>>

\* What the end of a processed day leaves in dayLog.
DayEntry(after, written, updateFailed) ==
    [date |-> uh_sync_date,
     rows |-> dayRows,
     uploadFailed |-> dayUploadFailed,
     anchorLast |-> mmap(metrics_data)["temp"].last_timestamp,
     epochBefore |-> last_uh_timestamp,
     written |-> written,
     updateFailed |-> updateFailed,
     before |-> mdh,
     after |-> after]

\* Mutant of update_participants: the watermark is written for the day
\* after the one just uploaded.
update_participants_next_day(last_sync_epoch, last_sync_date) ==
    [mdh EXCEPT !.uh_sync_date = Some(last_sync_date + 1),
                !.uh_sync_epoch = Some(last_sync_epoch)]

\* Mutant of update_participants: the epoch written is past the anchor's
\* last timestamp.
update_participants_ahead(last_sync_epoch, last_sync_date) ==
    [mdh EXCEPT !.uh_sync_date = Some(last_sync_date),
                !.uh_sync_epoch = Some(last_sync_epoch + 1)]

\* _update_participant_sync_date: the custom fields MDH holds afterwards.
update_participants(last_sync_epoch, last_sync_date) ==
    [mdh EXCEPT !.uh_sync_date = Some(last_sync_date),
                !.uh_sync_epoch = Some(last_sync_epoch)]

\* if record_count > 0: the watermark is written
WritesWatermark == record_count > 0

\* if self.dry_run: return {..., 'dry_run': True}   (end of the first processed day)
ReturnsDryRun == dry_run

\* The metric loop of the day is over: the sync epoch becomes the anchor's
\* last timestamp; a dry run returns; otherwise the watermark is written
\* when record_count > 0 (a failed MDH update is logged) and the next day
\* begins.
EndDay ==
    /\ pc = "metrics"
    /\ work = <<>>
    /\ last_uh_timestamp' = mmap(metrics_data)["temp"].last_timestamp
    /\ IF ReturnsDryRun
       THEN /\ result' = Success(record_count)
            /\ response' = "200"
            /\ pc' = "done"
            /\ dayLog' = Append(dayLog, DayEntry(mdh, FALSE, FALSE))
            /\ UNCHANGED <<mdh, uh_sync_date, failures, failed>>
       ELSE /\ \/ /\ WritesWatermark
                  /\ mdh' = update_participants(last_uh_timestamp', uh_sync_date)
                  /\ dayLog' = Append(dayLog, DayEntry(mdh', TRUE, FALSE))
                  /\ UNCHANGED <<failures, failed>>
               \/ /\ WritesWatermark
                  /\ failures < MaxFailures
                  /\ failures' = failures + 1
                  /\ failed' = failed \cup {"update"}
                  /\ dayLog' = Append(dayLog, DayEntry(mdh, FALSE, TRUE))
                  /\ UNCHANGED mdh
               \/ /\ ~WritesWatermark
                  /\ dayLog' = Append(dayLog, DayEntry(mdh, FALSE, FALSE))
                  /\ UNCHANGED <<mdh, failures, failed>>
            /\ uh_sync_date' = NextDay(uh_sync_date)
            /\ pc' = "loop"
            /\ UNCHANGED <<result, response>>
    /\ UNCHANGED <<sink, archive, vendor, dlq, rerun, dry_run, target_date,
                   record_count, metrics_data, work, fetched, dayRows,
                   dayUploadFailed, lastError, dlqSends, start, pure, suspended>>

\* ------------------------------------------- more than one invocation
\* What one running lambda_handler holds: its position, the local
\* variables of _collect_and_upload_participant_data and what it did.
Local ==
    [rerun |-> rerun, pc |-> pc, dry_run |-> dry_run,
     target_date |-> target_date, uh_sync_date |-> uh_sync_date,
     last_uh_timestamp |-> last_uh_timestamp, record_count |-> record_count,
     metrics_data |-> metrics_data, work |-> work, response |-> response,
     result |-> result, failed |-> failed, fetched |-> fetched,
     dayRows |-> dayRows, dayUploadFailed |-> dayUploadFailed,
     dayLog |-> dayLog, lastError |-> lastError, dlqSends |-> dlqSends,
     start |-> start, archive |-> archive, dlq |-> dlq]

\* A Lambda instance that has not been invoked.
Fresh ==
    [rerun |-> FALSE, pc |-> "idle", dry_run |-> FALSE, target_date |-> 1,
     uh_sync_date |-> 1, last_uh_timestamp |-> 0, record_count |-> 0,
     metrics_data |-> <<>>, work |-> <<>>, response |-> "", result |-> None,
     failed |-> {}, fetched |-> <<>>, dayRows |-> 0,
     dayUploadFailed |-> FALSE, dayLog |-> <<>>, lastError |-> None,
     dlqSends |-> 0, start |-> [mdh |-> mdh, sink |-> sink], archive |-> {},
     dlq |-> 0]

\* The instance l is the one whose steps are taken next.
Run(l) ==
    /\ rerun' = l.rerun
    /\ pc' = l.pc
    /\ dry_run' = l.dry_run
    /\ target_date' = l.target_date
    /\ uh_sync_date' = l.uh_sync_date
    /\ last_uh_timestamp' = l.last_uh_timestamp
    /\ record_count' = l.record_count
    /\ metrics_data' = l.metrics_data
    /\ work' = l.work
    /\ response' = l.response
    /\ result' = l.result
    /\ failed' = l.failed
    /\ fetched' = l.fetched
    /\ dayRows' = l.dayRows
    /\ dayUploadFailed' = l.dayUploadFailed
    /\ dayLog' = l.dayLog
    /\ lastError' = l.lastError
    /\ dlqSends' = l.dlqSends
    /\ start' = l.start
    /\ archive' = l.archive
    /\ dlq' = l.dlq

\* The running invocation stops between two calls of the day loop, cut
\* off by the Lambda timeout or overtaken by a second delivery for the
\* same participant, and another Lambda instance is the one to run.
Suspend ==
    /\ suspended = None
    /\ pc \in {"loop", "fetched", "metrics"}
    /\ suspended' = Some(Local)
    /\ Run(Fresh)
    /\ UNCHANGED <<store, vendor, failures, pure>>

\* The waiting invocation goes on and the running one waits.
Switch ==
    /\ suspended # None
    /\ suspended' = Some(Local)
    /\ Run(The(suspended))
    /\ UNCHANGED <<store, vendor, failures, pure>>

\* The day loop of one invocation.
Sync ==
    \/ LoopExit
    \/ FetchOk
    \/ ProcessMetric
    \/ EndDay /\ (failures' = failures \/ suspended = None)

\* The vendor has no data for the day: get_metrics raises an HTTP 404.
NotFoundErrors == {Err("HTTPError", Some(404), NoCode, {})}

\* Serialized invocations for one participant: the day loop with its
\* failing fetches, parquet uploads and MDH updates.
Next ==
    \/ StartSync
    \/ Sync
    \/ UploadJson(FALSE)
    \/ FetchFail(NotFoundErrors)

Spec == Init /\ [][Next]_vars

\* The first invocation, with every error shape at its two call boundaries
\* and a raw JSON archive that may fail.
NextErrors ==
    \/ pc = "idle" /\ InitializeConnectionsFail(InitErrors)
    \/ pc = "idle" /\ StartSync
    \/ Sync
    \/ UploadJson(TRUE)
    \/ FetchFail(FetchErrors)

SpecErrors == Init /\ [][NextErrors]_vars

\* The same, with the steps of the invocation taken one after the other
\* until it returns: every call of the handler returns or raises.
SpecRun == Init /\ [][NextErrors]_vars /\ WF_vars(NextErrors)

\* Serialized invocations in which every fetch and every parquet upload
\* succeeds and an MDH update may fail; one of them may be cut off in the
\* day loop by the Lambda timeout, and the invocations after it start from
\* the persisted watermark.
NextResume ==
    \/ StartSync /\ ~dry_run' /\ target_date' = MaxDay
    \/ LoopExit
    \/ FetchOk
    \/ UploadJson(FALSE)
    \/ ProcessMetric /\ failures' = failures
    \/ EndDay /\ (failures' = failures \/ suspended = None)
    \/ Suspend

SpecResume == Init /\ [][NextResume]_vars

\* Two Lambda instances that each serve one delivery for the same
\* participant and take their steps in any order; no call fails.
NextConcurrent ==
    \/ pc = "idle" /\ StartSync /\ ~dry_run' /\ target_date' = MaxDay
    \/ LoopExit
    \/ FetchOk
    \/ UploadJson(FALSE)
    \/ ProcessMetric /\ failures' = failures
    \/ EndDay /\ failures' = failures
    \/ Suspend
    \/ Switch

SpecConcurrent == Init /\ [][NextConcurrent]_vars

\* One invocation without a failing call, for a participant whose custom
\* fields are set, empty or missing in every combination.
InitStart ==
    /\ mdh \in [uh_start_date : {None, Some(EmptyString), Some(1)},
                uh_sync_date : {None, Some(EmptyString), Some(1), Some(MaxDay)},
                uh_sync_epoch : {None, Some(NonNumeric), Some(1)}]
    /\ Quiet
    /\ NoCall

NextStart ==
    \/ pc = "idle" /\ StartSync
    \/ LoopExit
    \/ FetchOk
    \/ UploadJson(FALSE)
    \/ ProcessMetric /\ failures' = failures
    \/ EndDay /\ failures' = failures

SpecStart == InitStart /\ [][NextStart]_vars

\* Between two invocations the vendor appends a value to a metric of a day
\* it has already answered for: a timestamp of that day later than the
\* metric's values so far.
VendorAppends ==
    /\ pc = "done"
    /\ \E d \in Days :
          /\ vendor[d] # None
          /\ \E i \in DOMAIN The(vendor[d]) :
             \E t \in (Base(d) + 1)..(Base(d) + TsPerDay) :
                /\ The(vendor[d])[i].type # "Sleep"
                /\ \A j \in DOMAIN The(vendor[d])[i].values :
                       The(vendor[d])[i].values[j] < t
                /\ vendor' = [vendor EXCEPT ![d] =
                                 Some([The(vendor[d]) EXCEPT ![i].values = Append(@, t)])]
    /\ UNCHANGED <<store, archive, dlq, rerun, pc, dry_run, target_date, loopVars,
                   response, result, failures, failed, fetched, dayHist,
                   lastError, dlqSends, start, pure, suspended>>

\* Successive invocations for the first day in which no call fails, with a
\* vendor that appends values between them.
NextAppend ==
    \/ StartSync /\ ~dry_run' /\ target_date' = 1
    \/ LoopExit
    \/ FetchOk
    \/ UploadJson(FALSE)
    \/ ProcessMetric /\ failures' = failures
    \/ EndDay /\ failures' = failures
    \/ VendorAppends

SpecAppend == Init /\ [][NextAppend]_vars

\* ----------------------------------------------------- the classifier alone
\* The exceptions is_retryable_error is tried on: every class with and
\* without a response carrying a status code, a botocore ClientError (whose
\* response is a dict, so it has no status_code) with its error code, and
\* the keywords str(error).lower() contains.
ClassifierInputs ==
    { e \in [cls : {"HTTPError", "RequestException", "ConnectionError",
                    "ConnectTimeout", "ReadTimeout", "JSONDecodeError",
                    "ClientError", "ValueError", "CustomError"},
             status : {None, Some(302), Some(400), Some(404), Some(429),
                       Some(499), Some(500), Some(503)},
             code : {NoCode, "Throttling", "ServiceUnavailable",
                     "InternalServerError", "ValidationException",
                     "InvalidParameterException", "AccessDenied", "Unlisted"},
             msg : SUBSET {"connection", "json", "other"}] :
        /\ e.cls = "ClientError" => e.status = None
        /\ e.cls # "ClientError" => e.code = NoCode }

InitClassify ==
    /\ mdh = NoFields
    /\ Quiet
    /\ error \in {Some(e) : e \in ClassifierInputs}
    /\ verdict = None
    /\ NoFlatten
    /\ NoConvert
    /\ NoSleep
    /\ NoBatch

\* is_retryable_error(error) is called and returns.
Classify ==
    /\ error # None
    /\ verdict = None
    /\ verdict' = Some(is_retryable_error(The(error)))
    /\ UNCHANGED <<mdh, vendor, sink, archive, dlq, rerun, pc, dry_run,
                   target_date, loopVars, response, result, failures, failed,
                   fetched, dayHist, lastError, dlqSends, start, suspended, error,
                   flattenVars, convertVars, sleepVars, batchVars>>

SpecClassify == InitClassify /\ [][Classify]_vars

\* ------------------------------------------------------ the flattener alone
\* A JSON value: a number, null, a list or a dictionary.  The items of a
\* list are its elements in order (key <<>>); the items of a dictionary
\* are its entries in insertion order.  A key is a string, written as the
\* sequence of its pieces so that joined keys can be compared.
Num(n) == [t |-> "num", v |-> n, items |-> <<>>]
Null == [t |-> "null", v |-> 0, items |-> <<>>]
Item(k, x) == [key |-> k, val |-> x]
RECURSIVE Elements(_)
Elements(xs) == IF xs = <<>> THEN <<>> ELSE <<Item(<<>>, Head(xs))>> \o Elements(Tail(xs))
List(xs) == [t |-> "list", v |-> 0, items |-> Elements(xs)]
Dict(entries) == [t |-> "dict", v |-> 0, items |-> entries]

\* separator: str = "_"
separator == <<"_">>

\* The values of a list, in order.
Values(obj) == [i \in DOMAIN obj.items |-> obj.items[i].val]

\* dict.get(key): the value of the entry, None when there is none.
Get(d, k) ==
    IF \E i \in DOMAIN d.items : d.items[i].key = k
    THEN d.items[CHOOSE i \in DOMAIN d.items : d.items[i].key = k].val
    ELSE Null

\* d[k] = x: the entry is replaced where it is, or added at the end.
SetItem(d, k, x) ==
    IF \E i \in DOMAIN d.items : d.items[i].key = k
    THEN Dict([i \in DOMAIN d.items |->
                 IF d.items[i].key = k THEN Item(k, x) ELSE d.items[i]])
    ELSE Dict(Append(d.items, Item(k, x)))

\* new_key = f"{prefix}{separator}{key}" if prefix else key
NewKey(prefix, key) == IF prefix # <<>> THEN prefix \o separator \o key ELSE key

\* flattened.update(more): the columns of more replace those of the same name.
Update(cols, more) == more @@ cols

\* The empty mapping of column names to columns.
NoColumns == [k \in {} |-> <<>>]

RECURSIVE FlattenRecursive(_, _)
RECURSIVE FlattenEntries(_, _, _)
\* for key, value in obj.items(): flattened.update(_flatten_recursive(value, new_key))
FlattenEntries(entries, prefix, cols) ==
    IF entries = <<>> THEN cols
    ELSE FlattenEntries(Tail(entries), prefix,
             Update(cols, FlattenRecursive(Head(entries).val,
                                           NewKey(prefix, Head(entries).key))))

\* _flatten_recursive(obj, prefix)
FlattenRecursive(obj, prefix) ==
    IF obj.t = "dict" THEN FlattenEntries(obj.items, prefix, NoColumns)
    ELSE IF obj.t = "list" THEN
        IF obj.items = <<>> THEN prefix :> <<>>
        ELSE IF \A i \in DOMAIN obj.items : obj.items[i].val.t = "dict"
        THEN LET all_keys == UNION {{obj.items[i].val.items[j].key :
                                        j \in DOMAIN obj.items[i].val.items} :
                                    i \in DOMAIN obj.items}
             IN [name \in {NewKey(prefix, k) : k \in all_keys} |->
                    LET k == CHOOSE q \in all_keys : NewKey(prefix, q) = name
                    IN [i \in DOMAIN obj.items |-> Get(obj.items[i].val, k)]]
        ELSE prefix :> Values(obj)
    ELSE prefix :> <<obj>>

\* The longest column, at least 1.
MaxLength(cols) ==
    LET lens == {Len(cols[k]) : k \in DOMAIN cols} \cup {1}
    IN CHOOSE m \in lens : \A n \in lens : n <= m

\* values * max_length
Repeat(values, n) == [i \in 1..(Len(values) * n) |-> values[1]]

\* Mutant of Fill: no column is broadcast.
FillNothing(cols, fl) == cols

\* Mutant of Fill: an empty column is padded to the longest length too.
FillEmptyColumns(cols, fl) ==
    LET max_length == IF fl THEN MaxLength(cols) ELSE 1
    IN [k \in DOMAIN cols |->
           IF fl /\ Len(cols[k]) = 1 /\ max_length > 1
           THEN Repeat(cols[k], max_length)
           ELSE IF fl /\ Len(cols[k]) = 0
           THEN [i \in 1..max_length |-> Null]
           ELSE cols[k]]

\* The second pass of flatten_json_to_columns.
Fill(cols, fl) ==
    LET max_length == IF fl THEN MaxLength(cols) ELSE 1
    IN [k \in DOMAIN cols |->
           IF fl /\ Len(cols[k]) = 1 /\ max_length > 1
           THEN Repeat(cols[k], max_length)
           ELSE cols[k]]

\* json_data['pid'] = participant_id, when a participant_id is given.
WithPid(obj, pid) ==
    IF pid # None THEN SetItem(obj, <<"pid">>, The(pid)) ELSE obj

\* flatten_json_to_columns(json_data, fill, separator, participant_id)
flatten_json_to_columns(obj, fl, pid) ==
    Fill(FlattenRecursive(WithPid(obj, pid), <<>>), fl)

\* The sequences over S of length lo..hi.
SeqsOf(S, lo, hi) == UNION {[1..n -> S] : n \in lo..hi}

\* The dictionaries of at most two entries with keys of K and values of V.
DictsOver(K, V) ==
    {Dict(es) : es \in {e \in SeqsOf([key : K, val : V], 0, 2) :
                            \A i, j \in DOMAIN e : i # j => e[i].key # e[j].key}}

Keys == {<<"a">>, <<"b">>, <<"a", "_", "b">>}
Scalars == {Num(1), Num(2)}

\* The lists tried: empty, of numbers, of dictionaries (with and without
\* every key, one of them with a nested value) and one of both kinds.
JsonLists ==
    {List(xs) : xs \in SeqsOf(Scalars, 0, MaxLen)}
    \cup {List(xs) : xs \in SeqsOf(DictsOver({<<"a">>, <<"b">>}, {Num(1)}), 1, MaxLen)}
    \cup {List(<<Num(1), Dict(<<Item(<<"a">>, Num(1))>>)>>),
          List(<<Dict(<<Item(<<"b">>, Dict(<<Item(<<"a">>, Num(2))>>))>>)>>)}

\* The values tried under a top-level key: numbers, lists, dictionaries
\* nested two deep, and a dictionary holding a list (a metric's object).
JsonValues ==
    Scalars \cup JsonLists
    \cup DictsOver({<<"a">>, <<"b">>},
                   Scalars \cup {Dict(<<Item(<<"a">>, Num(1))>>)})
    \cup {Dict(<<Item(<<"b">>, l)>>) : l \in JsonLists}

\* The values tried under a second top-level key.
SecondValues ==
    {Num(2), List(<<>>), List(<<Num(1), Num(2)>>), Dict(<<Item(<<"b">>, Num(2))>>)}

\* The objects flatten_json_to_columns is tried on.
FlattenInputs ==
    {Dict(<<Item(k, x)>>) : k \in Keys, x \in JsonValues}
    \cup {Dict(<<Item(ks[1], x), Item(ks[2], y)>>) :
              ks \in {q \in Keys \X Keys : q[1] # q[2]},
              x \in JsonValues, y \in SecondValues}

InitFlatten ==
    /\ mdh = NoFields
    /\ Quiet
    /\ NoClassify
    /\ json_arg \in {Some(x) : x \in FlattenInputs}
    /\ json_data = json_arg
    /\ fill \in BOOLEAN
    /\ participant_id \in {None, Some(Num(7))}
    /\ flattened = None
    /\ NoConvert
    /\ NoSleep
    /\ NoBatch

\* flatten_json_to_columns is called and returns; the caller's object has
\* got the pid entry.
Flatten ==
    /\ json_data # None
    /\ flattened = None
    /\ json_data' = Some(WithPid(The(json_data), participant_id))
    /\ flattened' = Some(flatten_json_to_columns(The(json_data), fill, participant_id))
    /\ UNCHANGED <<mdh, vendor, sink, archive, dlq, rerun, pc, dry_run,
                   target_date, loopVars, response, result, failures, failed,
                   fetched, dayHist, lastError, dlqSends, start, suspended, error,
                   verdict, json_arg, fill, participant_id, convertVars,
                   sleepVars, batchVars>>

SpecFlatten == InitFlatten /\ [][Flatten]_vars

\* ----------------------------------------------- the timestamp normalizer alone
\* A string that is no number, and a number datetime.fromtimestamp refuses.
Str == [t |-> "str", v |-> 0, items |-> <<>>]
Huge == [t |-> "huge", v |-> 0, items |-> <<>>]

\* key.lower(), piece by piece.
Lower(piece) ==
    CASE piece = "TimeStamp" -> "timestamp"
      [] piece = "_END" -> "_end"
      [] OTHER -> piece

\* _is_timestamp_key
is_timestamp_key(key) ==
    \E i \in DOMAIN key : Lower(key[i]) \in {"timestamp", "_start", "_end"}

\* _convert_unix_to_iso8601: the UTC form, the form of the target timezone,
\* or str(unix_timestamp) when the conversion raises.
convert_unix_to_iso8601(x, tz) ==
    IF x.t = "huge" THEN Str
    ELSE IF tz # None THEN [t |-> "iso8601_tz", v |-> x.v, items |-> <<>>]
    ELSE [t |-> "iso8601", v |-> x.v, items |-> <<>>]

\* isinstance(value, (int, float))
IsNumber(x) == x.t \in {"num", "huge"}

\* _process_timestamp_value
process_timestamp_value(value, tz) ==
    IF IsNumber(value) THEN convert_unix_to_iso8601(value, tz)
    ELSE IF value.t = "list"
    THEN [value EXCEPT !.items =
             [i \in DOMAIN value.items |->
                 IF IsNumber(value.items[i].val)
                 THEN Item(<<>>, convert_unix_to_iso8601(value.items[i].val, tz))
                 ELSE value.items[i]]]
    ELSE value

RECURSIVE AddSiblings(_, _, _)
\* The second pass of _process_dict over timestamp_keys.
AddSiblings(res, keys, tz) ==
    IF keys = <<>> THEN res
    ELSE LET key == Head(keys)
             value == Get(res, key)
             utc == SetItem(res, key \o <<"_iso8601">>,
                            process_timestamp_value(value, None))
             both == IF tz # None
                     THEN SetItem(utc, key \o <<"_iso8601", "_tz">>,
                                  process_timestamp_value(value, tz))
                     ELSE utc
         IN AddSiblings(both, Tail(keys), tz)

\* timestamp_keys: the timestamp-like keys of a dictionary, in its order.
TimestampKeys(d) ==
    LET like(e) == is_timestamp_key(e.key)
        es == SelectSeq(d.items, like)
    IN [i \in DOMAIN es |-> es[i].key]

RECURSIVE process_value(_, _)
\* _process_dict and _process_list: a new structure, children first.
process_value(x, tz) ==
    IF x.t = "dict"
    THEN AddSiblings(Dict([i \in DOMAIN x.items |->
                              Item(x.items[i].key, process_value(x.items[i].val, tz))]),
                     TimestampKeys(x), tz)
    ELSE IF x.t = "list"
    THEN [x EXCEPT !.items = [i \in DOMAIN x.items |->
                                 Item(<<>>, process_value(x.items[i].val, tz))]]
    ELSE x

\* convert_dict_timestamps(data, timezone)
convert_dict_timestamps(data, tz) == process_value(data, tz)

\* Mutant of ArgumentAfterConvert: the result is written into the argument.
ArgumentOverwritten(data, out) == out

\* The argument after the call: no statement of convert_dict_timestamps
\* assigns into data or into a dictionary or list inside it.
ArgumentAfterConvert(data, out) == data

ConvertKeys ==
    {<<"timestamp">>, <<"TimeStamp">>, <<"bedtime", "_start">>,
     <<"week", "_END", "ing">>, <<"value">>, <<"start">>,
     <<"timestamp", "_iso8601">>}

\* The values tried under a key: numbers, a string, lists, and a nested
\* dictionary and a list of dictionaries with keys of both kinds.
ConvertValues ==
    {Num(1), Huge, Str, List(<<>>), List(<<Num(1), Str>>)}
    \cup {Dict(<<Item(k, Num(2))>>) : k \in {<<"x", "_end">>, <<"value">>}}
    \cup {List(<<Dict(<<Item(<<"timestamp">>, Num(1)), Item(<<"value">>, Num(2))>>)>>)}

\* The structures convert_dict_timestamps is tried on.
ConvertInputs ==
    {Dict(<<Item(k, x)>>) : k \in ConvertKeys, x \in ConvertValues}
    \cup {Dict(<<Item(ks[1], x), Item(ks[2], y)>>) :
              ks \in {q \in ConvertKeys \X ConvertKeys : q[1] # q[2]},
              x \in ConvertValues, y \in {Num(2), Str}}
    \cup {List(<<x>>) : x \in ConvertValues}

InitConvert ==
    /\ mdh = NoFields
    /\ Quiet
    /\ NoClassify
    /\ NoFlatten
    /\ ts_arg \in {Some(x) : x \in ConvertInputs}
    /\ ts_data = ts_arg
    /\ timezone \in {None, Some("America/Phoenix")}
    /\ converted = <<>>
    /\ NoSleep
    /\ NoBatch

\* convert_dict_timestamps is called on the structure and returns.
Convert ==
    /\ ts_data # None
    /\ Len(converted) < MaxCalls
    /\ LET out == convert_dict_timestamps(The(ts_data), timezone)
       IN /\ converted' = Append(converted, out)
          /\ ts_data' = Some(ArgumentAfterConvert(The(ts_data), out))
    /\ UNCHANGED <<mdh, vendor, sink, archive, dlq, rerun, pc, dry_run,
                   target_date, loopVars, response, result, failures, failed,
                   fetched, dayHist, lastError, dlqSends, start, suspended, error,
                   verdict, flattenVars, ts_arg, timezone, sleepVars, batchVars>>

SpecConvert == InitConvert /\ [][Convert]_vars

\* ------------------------------------------------- the Sleep metric alone
\* The branch of the metric loop for a metric of type Sleep, on the object
\* of one Sleep metric.  A dictionary is a Dict whose keys are one-piece
\* strings; a metric record handed to _process_metric_data is the record
\* of its keys type, object, bedtime_start, bedtime_end and pid (None: the
\* key is absent).
MaxSubKeys == 3

\* The sub-keys a Sleep object is tried with: two whitelisted tables, one
\* table that is not whitelisted and the two bedtime bounds.
SleepKeys == {<<"hrv">>, <<"hr_graph">>, <<"spo2">>,
              <<"bedtime_start">>, <<"bedtime_end">>}

\* The values tried under a sub-key: a bound is a number (0 included) or
\* null, a table is an object with its rows.
SleepValues(k) ==
    IF k \in {<<"bedtime_start">>, <<"bedtime_end">>}
    THEN {Num(0), Num(5), Null}
    ELSE {Dict(<<Item(<<"values">>, List(<<Num(1)>>))>>)}

SleepObjects ==
    {Dict(es) : es \in {e \in SeqsOf([key : SleepKeys,
                                       val : UNION {SleepValues(k) : k \in SleepKeys}],
                                      0, MaxSubKeys) :
                            /\ \A i, j \in DOMAIN e : i # j => e[i].key # e[j].key
                            /\ \A i \in DOMAIN e : e[i].val \in SleepValues(e[i].key)}}

\* The participant the metrics belong to.
SleepPid == Num(7)

\* Mutant of NewObj: the sub-key is processed under the type of its parent.
NewObjTypedSleep(key, value) ==
    [type |-> "Sleep", object |-> value, bedtime_start |-> None,
     bedtime_end |-> None, pid |-> None]

\* newObj = {'type': obj[0], 'object': copy.deepcopy(obj[1])}
NewObj(key, value) ==
    [type |-> key[1], object |-> value, bedtime_start |-> None,
     bedtime_end |-> None, pid |-> None]

\* What _process_metric_data makes of the metric record it is handed: the
\* bounds that are not None are stored in it, flatten_json_to_columns adds
\* the pid, and the rows go to the table named by its type.
process_metric_data(metric, bedtime_start, bedtime_end) ==
    [metric |-> [metric EXCEPT
                    !.bedtime_start = IF bedtime_start # Null
                                      THEN Some(bedtime_start) ELSE @,
                    !.bedtime_end = IF bedtime_end # Null
                                    THEN Some(bedtime_end) ELSE @,
                    !.pid = Some(SleepPid)],
     table |-> metric.type]

InitSleep ==
    /\ mdh = NoFields
    /\ Quiet
    /\ NoClassify
    /\ NoFlatten
    /\ NoConvert
    /\ sleep_arg \in {Some(o) : o \in SleepObjects}
    /\ sleep_obj = sleep_arg
    /\ sleep_pos = 1
    /\ sleep_calls = <<>>
    /\ sleep_pc = "items"
    /\ result_bound \in BOOLEAN
    /\ NoBatch

\* One turn of "for obj in sleep_obj.items()": a sub-key that is not
\* whitelisted is passed over; a whitelisted one is wrapped, with a deep
\* copy of its value, in a new record that _process_metric_data works on,
\* so the payload's object stays as it is.
SleepItem ==
    /\ sleep_pc = "items"
    /\ sleep_pos <= Len(The(sleep_obj).items)
    /\ LET obj == The(sleep_obj).items[sleep_pos] IN
       IF obj.key[1] \notin WHITELISTED_TABLES
       THEN UNCHANGED <<sleep_calls, result_bound>>
       ELSE /\ sleep_calls' =
                 Append(sleep_calls,
                        process_metric_data(
                            NewObj(obj.key, obj.val),
                            Get(The(sleep_obj), <<"bedtime_start">>),
                            Get(The(sleep_obj), <<"bedtime_end">>)))
            /\ result_bound' = TRUE
    /\ sleep_pos' = sleep_pos + 1
    /\ UNCHANGED <<mdh, vendor, sink, archive, dlq, rerun, pc, dry_run,
                   target_date, loopVars, response, result, failures, failed,
                   fetched, dayHist, lastError, dlqSends, start, suspended, error,
                   verdict, flattenVars, convertVars, sleep_arg, sleep_obj,
                   sleep_pc, batchVars>>

\* The loop over the sub-keys is over and the last statement of the loop
\* body reads result['record_count']: when no call of this invocation has
\* assigned result yet, that raises UnboundLocalError.
SleepEnd ==
    /\ sleep_pc = "items"
    /\ sleep_pos > Len(The(sleep_obj).items)
    /\ sleep_pc' = IF result_bound THEN "done" ELSE "UnboundLocalError"
    /\ UNCHANGED <<mdh, vendor, sink, archive, dlq, rerun, pc, dry_run,
                   target_date, loopVars, response, result, failures, failed,
                   fetched, dayHist, lastError, dlqSends, start, suspended, error,
                   verdict, flattenVars, convertVars, sleep_arg, sleep_obj,
                   sleep_pos, sleep_calls, result_bound, batchVars>>

NextSleep == SleepItem \/ SleepEnd

SpecSleep == InitSleep /\ [][NextSleep]_vars

\* ------------------------------------------- process_sns_messages alone
\* A batch of SNS records, each by what _process_sns_message finds in its
\* Message (valid, no JSON, or JSON without one of the required fields) and
\* the participant it names.
MaxRecords == 2

MessageKinds ==
    {"valid", "invalid_json", "no_participant_id", "no_email", "no_target_date"}

SnsBatches ==
    SeqsOf([message : MessageKinds, participant_id : {"p1", "p2"}], 0, MaxRecords)

\* _process_sns_message: participant_data, or ValueError (None) when the
\* Message is no JSON or a required field is missing.
process_sns_message(record) ==
    IF record.message = "valid" THEN Some(record.participant_id) ELSE None

\* A participant result as process_sns_messages keeps it.
ParticipantResult(p, r) ==
    [participant_id |-> p, success |-> r.success,
     record_count |-> r.record_count, error |-> r.error]

\* What _collect_and_upload_participant_data may do for a participant:
\* return a success with its record count, return a failure, or raise
\* (None).
SyncOutcomes(p) ==
    {Some(ParticipantResult(p, The(Success(n)))) : n \in {0, 2}}
    \cup {Some(ParticipantResult(p, The(Failure(why)))) :
              why \in {"Neither uh_sync_timestamp or uh_start_date is set",
                       "Non-retryable UH API error"}}
    \cup {None}

\* The entry the per-record except appends.
UnknownParticipant ==
    [participant_id |-> "unknown", success |-> FALSE, record_count |-> 0,
     error |-> "SNS processing error"]

\* Mutant of FailedAfterException: the per-record except does not count
\* the record.
FailedAfterExceptionUncounted == failed_uploads

\* failed_uploads += 1 in the per-record except
FailedAfterException == failed_uploads + 1

\* The three dictionaries process_sns_messages returns (None: the key is
\* not in the dictionary).
FailedSummary ==
    [success |-> FALSE, participants_processed |-> None,
     successful_uploads |-> None, failed_uploads |-> None, results |-> None]

EmptySummary ==
    [success |-> TRUE, participants_processed |-> Some(0),
     successful_uploads |-> Some(0), failed_uploads |-> Some(0), results |-> None]

BatchSummary ==
    [success |-> TRUE, participants_processed |-> Some(Len(sns_records)),
     successful_uploads |-> Some(successful_uploads),
     failed_uploads |-> Some(failed_uploads), results |-> Some(results)]

InitBatch ==
    /\ mdh = NoFields
    /\ Quiet
    /\ NoClassify
    /\ NoFlatten
    /\ NoConvert
    /\ NoSleep
    /\ sns_records \in SnsBatches
    /\ sns_pc = "init"
    /\ sns_pos = 0
    /\ results = <<>>
    /\ successful_uploads = 0
    /\ failed_uploads = 0
    /\ total_data_size = 0
    /\ summary = None

syncVars == <<mdh, vendor, sink, archive, dlq, rerun, pc, dry_run, target_date,
              loopVars, response, result, failures, failed, fetched, dayHist,
              lastError, dlqSends, start, suspended>>

\* _initialize_connections raises and the outer except returns; or it
\* returns and the batch is empty; or the loop over the records begins.
BatchStart ==
    /\ sns_pc = "init"
    /\ \/ /\ summary' = Some(FailedSummary)
          /\ sns_pc' = "returned"
          /\ UNCHANGED sns_pos
       \/ /\ sns_records = <<>>
          /\ summary' = Some(EmptySummary)
          /\ sns_pc' = "returned"
          /\ UNCHANGED sns_pos
       \/ /\ sns_records # <<>>
          /\ sns_pc' = "records"
          /\ sns_pos' = 1
          /\ UNCHANGED summary
    /\ UNCHANGED <<syncVars, error, verdict, flattenVars, convertVars, sleepVars,
                   sns_records, results, successful_uploads, failed_uploads,
                   total_data_size>>

\* One turn of "for record in sns_records": the message is parsed and the
\* participant synchronised; the result is appended and counted, and any
\* exception is caught, counted as a failure and answered with an entry
\* for an unknown participant.
BatchRecord ==
    /\ sns_pc = "records"
    /\ sns_pos <= Len(sns_records)
    /\ LET participant_data == process_sns_message(sns_records[sns_pos]) IN
       \E outcome \in (IF participant_data = None THEN {None}
                       ELSE SyncOutcomes(The(participant_data))) :
          IF outcome = None
          THEN /\ failed_uploads' = FailedAfterException
               /\ results' = Append(results, UnknownParticipant)
               /\ UNCHANGED <<successful_uploads, total_data_size>>
          ELSE /\ results' = Append(results, The(outcome))
               /\ IF The(outcome).success
                  THEN /\ successful_uploads' = successful_uploads + 1
                       /\ total_data_size' = total_data_size + The(outcome).record_count
                       /\ UNCHANGED failed_uploads
                  ELSE /\ failed_uploads' = failed_uploads + 1
                       /\ UNCHANGED <<successful_uploads, total_data_size>>
    /\ sns_pos' = sns_pos + 1
    /\ UNCHANGED <<syncVars, error, verdict, flattenVars, convertVars, sleepVars,
                   sns_records, sns_pc, summary>>

\* The loop is over and the summary is returned.
BatchReturn ==
    /\ sns_pc = "records"
    /\ sns_pos > Len(sns_records)
    /\ summary' = Some(BatchSummary)
    /\ sns_pc' = "returned"
    /\ UNCHANGED <<syncVars, error, verdict, flattenVars, convertVars, sleepVars,
                   sns_records, sns_pos, results, successful_uploads,
                   failed_uploads, total_data_size>>

NextBatch == BatchStart \/ BatchRecord \/ BatchReturn

SpecBatch == InitBatch /\ [][NextBatch]_vars

\* ================================================================ claims
\* The watermark MDH holds, as (date, epoch); the date is None before the
\* first write when only uh_start_date is set.
EpochIn(cf) == SyncEpochOf(cf.uh_sync_epoch)

FailedUploadLeavesWatermark ==
    \A i \in DOMAIN dayLog :
        dayLog[i].uploadFailed => dayLog[i].after = dayLog[i].before

\* C3 (as claimed): an error classified Retryable at connection
\* initialisation or at the metric fetch leaves lambda_handler as a raised
\* RetryableError, never as a returned response.
RetryableErrorIsRaised ==
    \A h \in lastError :
        (pc = "done" /\ h.retryable) => response = "RetryableError"

\* Transient failures of the vendor call: HTTP status >= 500 or 429, or a
\* connection or timeout failure of the request.
IsTransient(e) ==
    \/ e.status # None /\ (The(e.status) >= 500 \/ The(e.status) = 429)
    \/ e.cls \in {"ConnectionError", "Timeout", "ConnectTimeout", "ReadTimeout"}

\* C4 (as claimed): a metric fetch that fails with a transient failure is
\* classified Retryable at the fetch call site and no dead-letter record is
\* sent.
TransientFetchErrorIsRetryable ==
    \A h \in lastError :
        (h.operation = "uh_api_get_metrics" /\ IsTransient(h.raw))
            => (h.retryable /\ dlqSends = 0)

\* The invocation ended with a NonRetryable failure of the metric fetch of
\* day uh_sync_date.
NonRetryableFetchFailure ==
    /\ pc = "done"
    /\ \E h \in lastError : h.operation = "uh_api_get_metrics" /\ ~h.retryable

\* What C5 says besides the dead-letter record: the failing day is the last
\* one fetched, no watermark of that day or a later one is persisted, and
\* the invocation returns its response (200) with a failed participant.
FetchFailureStopsTheLoop ==
    /\ fetched[Len(fetched)] = uh_sync_date
    /\ \A i \in DOMAIN dayLog : dayLog[i].date < uh_sync_date
    /\ mdh # start.mdh => The(mdh.uh_sync_date) < uh_sync_date
    /\ response = "200"
    /\ \E r \in result : ~r.success

\* C5 (as claimed): a NonRetryable fetch failure emits exactly one
\* dead-letter record, stops the loop without a watermark for the day and
\* returns normally.
NonRetryableFetchEmitsOneRecord ==
    NonRetryableFetchFailure => (dlq = 1 /\ FetchFailureStopsTheLoop)

\* C5 (amended): a NonRetryable fetch failure makes exactly one
\* send_to_dlq call, which delivers at most one record (none when the queue
\* is not configured or does not answer), stops the loop without a
\* watermark for the day and returns normally.
NonRetryableFetchSendsOnce ==
    NonRetryableFetchFailure =>
        (dlqSends = 1 /\ dlq <= 1 /\ FetchFailureStopsTheLoop)

\* C5 witness: the fetch of a later day of the window failed NonRetryable
\* after an earlier day was processed, and the record was delivered.
NonRetryableFailureOnLaterDay ==
    NonRetryableFetchFailure /\ Len(fetched) >= 2 /\ dayLog # <<>> /\ dlq = 1

\* C6: a run that repeats a clean run (same vendor data, same target date,
\* started from the watermark the clean run left) uploads nothing and
\* writes no watermark.
RerunChangesNothing ==
    rerun => (sink = start.sink /\ mdh = start.mdh /\ dayLog = <<>>)

\* C6 witness: a run that repeats a clean run which had uploaded rows and
\* written a watermark is over, having fetched its window again.
RerunOfUploadingRunDone ==
    /\ rerun /\ pc = "done" /\ ~dry_run
    /\ fetched # <<>>
    /\ start.mdh.uh_sync_epoch # None
    /\ start.sink # EmptyBag

\* C7 (as claimed): in a non-dry run the watermark write of a processed day
\* is made exactly when a row of that day was uploaded (a write whose MDH
\* update failed counts as made).
WatermarkWrittenIffDayUploaded ==
    ~dry_run =>
        \A i \in DOMAIN dayLog :
            (dayLog[i].written \/ dayLog[i].updateFailed) <=> dayLog[i].rows > 0

RECURSIVE WritesOf(_)
\* The watermark writes an invocation made, in order, as (date, epoch).
WritesOf(log) ==
    IF log = <<>> THEN <<>>
    ELSE IF Head(log).written
         THEN <<[date |-> The(Head(log).after.uh_sync_date),
                 epoch |-> The(Head(log).after.uh_sync_epoch)]>> \o WritesOf(Tail(log))
         ELSE WritesOf(Tail(log))

\* The values of the anchor metric in the payload of day d.
AnchorValues(d) ==
    LET data == The(vendor[d])
        temps == {i \in DOMAIN data : data[i].type = "temp"}
    IN IF temps = {} THEN <<>> ELSE data[CHOOSE i \in temps : TRUE].values

RECURSIVE ExpectedWrites(_, _, _)
\* The writes C8 expects from day d on with sync epoch e, up to day last:
\* one (d, anchor last timestamp) for every day whose anchor has values and
\* whose anchor last timestamp exceeds the epoch in effect.
ExpectedWrites(d, e, last) ==
    IF d > last THEN <<>>
    ELSE LET vals == AnchorValues(d) IN
         IF vals # <<>> /\ vals[Len(vals)] > e
         THEN <<[date |-> d, epoch |-> vals[Len(vals)]]>>
                  \o ExpectedWrites(d + 1, vals[Len(vals)], last)
         ELSE ExpectedWrites(d + 1, e, last)

Window(s, t) == [i \in 1..(IF t >= s THEN t - s + 1 ELSE 0) |-> s + i - 1]

\* A non-dry invocation whose day loop ran with no failed fetch is over.
LoopRanToEnd ==
    /\ pc = "done" /\ ~dry_run
    /\ failed \cap {"init", "fetch"} = {}
    /\ StartDateOf(start.mdh) # None

DryRunChangesNothing ==
    (dry_run /\ pc # "idle") =>
        (sink = start.sink /\ mdh = start.mdh /\ archive = {})

\* C10 witness: a dry run is over and reports the rows it would upload.
DryRunCountedRows ==
    dry_run /\ pc = "done" /\ result # None /\ record_count > 0

\* The error carries an HTTP status code the first rule decides.
StatusRetryable(e) == e.status # None /\ (The(e.status) >= 500 \/ The(e.status) = 429)
StatusPermanent(e) ==
    e.status # None /\ The(e.status) >= 400 /\ The(e.status) < 500 /\ The(e.status) # 429

\* C11: an error that carries an HTTP status code is classified Retryable
\* when the status is >= 500 or 429 and NonRetryable when it is any other
\* status of 400..499, whatever its class and its message.
StatusCodeDecidesFirst ==
    \A e \in error : \A v \in verdict :
        /\ StatusRetryable(e) => v = TRUE
        /\ StatusPermanent(e) => v = FALSE

\* C11 witness: a connection error whose message speaks of a connection
\* and whose response has status 404 was classified, and one of class
\* JSONDecodeError with status 503.
StatusBeatsClassAndMessage ==
    \E e \in error :
        /\ verdict # None
        /\ \/ e.cls = "ConnectionError" /\ "connection" \in e.msg /\ e.status = Some(404)
           \/ e.cls = "JSONDecodeError" /\ "json" \in e.msg /\ e.status = Some(503)

\* The decision table of the classifier, its five rules in order, each
\* rule deciding only the errors that match its condition.
DecisionTable(e) ==
    IF StatusRetryable(e) THEN TRUE
    ELSE IF StatusPermanent(e) THEN FALSE
    ELSE IF e.cls \in NetworkClasses THEN TRUE
    ELSE IF e.cls = "ClientError"
            /\ e.code \in {"Throttling", "ThrottledException",
                           "ServiceUnavailable", "InternalServerError"}
         THEN TRUE
    ELSE IF e.cls = "ClientError"
            /\ e.code \in {"ValidationException", "InvalidParameterException",
                           "AccessDenied"}
         THEN FALSE
    ELSE IF e.msg \cap {"connection", "timeout", "network", "dns"} # {} THEN TRUE
    ELSE IF e.msg \cap {"validation", "parse", "json", "schema", "format"} # {} THEN FALSE
    ELSE FALSE

\* C12 (as claimed): the verdict is the one of the first rule, in the order
\* status code, network-layer failure, service error code, message text,
\* default, whose condition the error matches.
FirstMatchingRuleDecides ==
    \A e \in error : \A v \in verdict : v = DecisionTable(e)

\* The decision table with its second rule as the code has it: every
\* exception of the requests library that the status rule left undecided
\* is decided there, Retryable for a connection or timeout failure and
\* NonRetryable for any other, whatever its message.
RequestRuleTable(e) ==
    IF StatusRetryable(e) THEN TRUE
    ELSE IF StatusPermanent(e) THEN FALSE
    ELSE IF e.cls \in RequestExceptionClasses THEN e.cls \in NetworkClasses
    ELSE DecisionTable(e)

\* C12 (amended): the verdict is the one of the first matching rule in the
\* order status code, requests-library exception, service error code,
\* message text, default, where the second rule decides every
\* requests-library exception (NonRetryable unless it is a connection or
\* timeout failure) and only the other errors reach the later rules.
FirstMatchingRuleDecidesRequests ==
    \A e \in error : \A v \in verdict : v = RequestRuleTable(e)

\* C12 witness: a requests exception that is no connection or timeout
\* failure, carries no status and whose message speaks of a connection was
\* classified NonRetryable; so was a service error with an unlisted code,
\* by its message.
RequestErrorNotLeftToMessage ==
    \E e \in error :
        /\ verdict = Some(FALSE)
        /\ e.status = None
        /\ \/ e.cls = "RequestException" /\ "connection" \in e.msg
           \/ e.cls = "ClientError" /\ e.code = "Unlisted" /\ e.msg = {"json"}

\* No rule but the default matches the error.
MatchesNoRule(e) ==
    /\ ~StatusRetryable(e) /\ ~StatusPermanent(e)
    /\ e.cls \notin NetworkClasses
    /\ ~(e.cls = "ClientError"
          /\ e.code \in {"Throttling", "ThrottledException", "ServiceUnavailable",
                         "InternalServerError", "ValidationException",
                         "InvalidParameterException", "AccessDenied"})
    /\ e.msg \cap {"connection", "timeout", "network", "dns", "validation",
                   "parse", "json", "schema", "format"} = {}

\* C13: an error that matches none of the status-code, network-layer,
\* service-code and message-text rules is classified NonRetryable.
UnrecognizedIsNonRetryable ==
    \A e \in error : \A v \in verdict : MatchesNoRule(e) => v = FALSE

\* C13 witness: a custom exception with an unrelated message, and a service
\* error with an unlisted code, were classified.
UnrecognizedClassified ==
    \E e \in error :
        /\ verdict # None
        /\ MatchesNoRule(e)
        /\ e.msg = {"other"}
        /\ e.cls \in {"CustomError", "ClientError"}

\* The columns before the fill step, and the lengths they have.
Unfilled == FlattenRecursive(WithPid(The(json_arg), participant_id), <<>>)
Lengths(cols) == {Len(cols[k]) : k \in DOMAIN cols}
Longest(cols) ==
    IF Lengths(cols) = {} THEN 0
    ELSE CHOOSE m \in Lengths(cols) : \A n \in Lengths(cols) : n <= m

\* C14 (as claimed): with fill=True all columns of the result have the
\* same length, for every input.
FilledColumnsSameLength ==
    \A cols \in flattened : fill => Cardinality(Lengths(cols)) <= 1

\* C14 (amended): with fill=True every column that had length 1 gets the
\* length of the longest column and every other column keeps its length;
\* so all columns of the result have the same length when, and only when,
\* no column before the fill step had a length other than 1 and the
\* longest.
FilledColumnsSameLengthWhenUniform ==
    \A cols \in flattened :
        fill =>
            LET longest == Longest(Unfilled) IN
            /\ DOMAIN cols = DOMAIN Unfilled
            /\ \A k \in DOMAIN cols :
                   Len(cols[k]) = IF Len(Unfilled[k]) = 1 THEN longest
                                  ELSE Len(Unfilled[k])
            /\ Cardinality(Lengths(cols)) <= 1
                   <=> Lengths(Unfilled) \subseteq {1, longest}

\* C14 witness: a call with fill=True broadcast a column of length 1 beside
\* a column of length 2 and all columns of the result have length 2.
SingleColumnBroadcast ==
    \E cols \in flattened :
        /\ fill
        /\ Lengths(Unfilled) = {1, 2}
        /\ Lengths(cols) = {2}

RECURSIVE DictListsIn(_, _)
\* The non-empty lists of dictionaries the object holds under a path of
\* dictionary keys, each with the joined path.
DictListsIn(obj, prefix) ==
    IF obj.t = "dict"
    THEN UNION {DictListsIn(obj.items[i].val, NewKey(prefix, obj.items[i].key)) :
                    i \in DOMAIN obj.items}
    ELSE IF /\ obj.t = "list"
            /\ obj.items # <<>>
            /\ \A i \in DOMAIN obj.items : obj.items[i].val.t = "dict"
    THEN {[path |-> prefix, elems |-> Values(obj)]}
    ELSE {}

\* The keys of a dictionary.
KeysOf(d) == {d.items[j].key : j \in DOMAIN d.items}

\* C15 (as claimed): with fill=False, for every list of n dictionaries in
\* the input and every key of one of its elements there is a column
\* <path>_<key> of length n whose i-th entry is the i-th element's value
\* for the key, null where the element has no such key.
ListOfDictsTransposed ==
    \A cols \in flattened :
        (~fill /\ participant_id = None) =>
            \A l \in DictListsIn(The(json_arg), <<>>) :
                \A i \in DOMAIN l.elems : \A k \in KeysOf(l.elems[i]) :
                    /\ NewKey(l.path, k) \in DOMAIN cols
                    /\ cols[NewKey(l.path, k)] =
                           [j \in DOMAIN l.elems |-> Get(l.elems[j], k)]

RECURSIVE LeafPaths(_, _)
\* The leaves of an object without lists: each with the path of dictionary
\* keys that leads to it.
LeafPaths(obj, path) ==
    IF obj.t = "dict"
    THEN UNION {LeafPaths(obj.items[i].val, Append(path, obj.items[i].key)) :
                    i \in DOMAIN obj.items}
    ELSE {[path |-> path, leaf |-> obj]}

RECURSIVE HasList(_)
HasList(obj) ==
    \/ obj.t = "list"
    \/ obj.t = "dict" /\ \E i \in DOMAIN obj.items : HasList(obj.items[i].val)

RECURSIVE Joined(_)
\* The keys of a path joined by the separator.
Joined(path) ==
    IF Len(path) = 1 THEN path[1]
    ELSE path[1] \o separator \o Joined(Tail(path))

\* C16 (as claimed): with fill=False an object without lists is flattened
\* to exactly one column for each leaf path, named by the joined path and
\* holding the one scalar of that leaf.
OneColumnPerLeafPath ==
    \A cols \in flattened :
        (~fill /\ participant_id = None /\ ~HasList(The(json_arg))) =>
            LET leaves == LeafPaths(The(json_arg), <<>>) IN
            /\ DOMAIN cols = {Joined(l.path) : l \in leaves}
            /\ Cardinality(DOMAIN cols) = Cardinality(leaves)
            /\ \A l \in leaves : cols[Joined(l.path)] = <<l.leaf>>

RECURSIVE DictLevels(_, _)
\* The dictionaries of a structure, each with what the result has at the
\* same place (null when the result has nothing there).
DictLevels(x, y) ==
    (IF x.t = "dict" THEN {[in |-> x, out |-> y]} ELSE {})
    \cup (IF x.t \in {"dict", "list"}
          THEN UNION {DictLevels(x.items[i].val,
                                 IF x.t = "dict" /\ y.t = "dict"
                                 THEN Get(y, x.items[i].key)
                                 ELSE IF x.t = "list" /\ y.t = "list"
                                         /\ i \in DOMAIN y.items
                                 THEN y.items[i].val
                                 ELSE Null) :
                          i \in DOMAIN x.items}
          ELSE {})

\* C18 (as claimed): at every dictionary level the keys of the result are the keys of
\* the input, '<key>_iso8601' for every timestamp-like key of the input
\* and, exactly when a timezone was given, '<key>_iso8601_tz' for each of
\* them; no other key is added.
SiblingsOfTimestampKeys ==
    \A i \in DOMAIN converted :
        \A l \in DictLevels(The(ts_arg), converted[i]) :
            LET like == {k \in KeysOf(l.in) : is_timestamp_key(k)} IN
            /\ l.out.t = "dict"
            /\ \A p, q \in DOMAIN l.out.items :
                   p # q => l.out.items[p].key # l.out.items[q].key
            /\ KeysOf(l.out) =
                   KeysOf(l.in)
                   \cup {k \o <<"_iso8601">> : k \in like}
                   \cup (IF timezone # None
                         THEN {k \o <<"_iso8601", "_tz">> : k \in like}
                         ELSE {})

HasForeignMetric(data) ==
    \E i \in DOMAIN data :
        \/ /\ data[i].type \notin WHITELISTED_TABLES \cup {"Sleep"}
           /\ data[i].values # <<>>
        \/ \E j \in DOMAIN data[i].sub :
               /\ data[i].sub[j].key \notin WHITELISTED_TABLES
               /\ data[i].sub[j].values # <<>>

UploadedRowsNewerThanEpoch ==
    [][ /\ \A r \in BagToSet(sink' (-) sink) : r.ts > last_uh_timestamp
        /\ (pc = "metrics" /\ pc' = "metrics")
               => last_uh_timestamp' = last_uh_timestamp ]_vars

\* C21: within one invocation the operations of a day are in order. An
\* upload to the sink is for the day fetched last, and neither that day nor
\* a later one was processed to its end or had its watermark written
\* before. A watermark write is for the day fetched last, after all its
\* uploads. A fetch is for a day later than every day fetched or processed
\* before, with no upload of an earlier day outstanding.
OperationsOrderedPerDay ==
    [][ /\ sink' # sink =>
               /\ fetched # <<>>
               /\ fetched[Len(fetched)] = uh_sync_date
               /\ mdh' = mdh
               /\ \A i \in DOMAIN dayLog :
                      /\ dayLog[i].date < uh_sync_date
                      /\ dayLog[i].written =>
                             The(dayLog[i].after.uh_sync_date) < uh_sync_date
        /\ mdh' # mdh =>
               /\ sink' = sink
               /\ work = <<>>
               /\ fetched # <<>>
               /\ fetched[Len(fetched)] = uh_sync_date
               /\ mdh'.uh_sync_date = Some(uh_sync_date)
        /\ (fetched' # fetched /\ fetched' # <<>>) =>
               /\ fetched' = Append(fetched, uh_sync_date)
               /\ work = <<>>
               /\ \A i \in DOMAIN fetched : fetched[i] < uh_sync_date
               /\ \A i \in DOMAIN dayLog : dayLog[i].date < uh_sync_date ]_vars

\* C21 witness: an invocation is over that fetched two days and, for each,
\* uploaded rows and then wrote the watermark.
TwoDaysUploadedInOrder ==
    /\ pc = "done" /\ ~dry_run
    /\ Len(fetched) >= 2
    /\ Len(dayLog) >= 2
    /\ \A i \in DOMAIN dayLog : dayLog[i].written /\ dayLog[i].rows > 0

RECURSIVE MetricRows(_, _)
\* The rows the calls of _process_metric_data in work append under the
\* sync epoch, when every upload succeeds.
MetricRows(w, epoch) ==
    IF w = <<>> THEN EmptyBag
    ELSE RowBag(Head(w).type, NewRows(Head(w), epoch)) (+) MetricRows(Tail(w), epoch)

RECURSIVE RunRows(_, _, _, _)
\* The rows a day loop appends from day d on with the given sync epoch,
\* when no call fails and it runs up to target day td over the payloads v.
RunRows(d, epoch, v, td) ==
    IF d > td THEN EmptyBag
    ELSE IF AnchorMissing(The(v[d])) \/ AnchorCaughtUp(The(v[d]), epoch)
         THEN RunRows(d + 1, epoch, v, td)
    ELSE MetricRows(WorkList(The(v[d])), epoch)
             (+) RunRows(d + 1, mmap(The(v[d]))["temp"].last_timestamp, v, td)

\* The rows of one uninterrupted invocation that starts from the custom
\* fields cf.
UninterruptedRows(cf, v, td) ==
    IF StartDateOf(cf) = None THEN EmptyBag
    ELSE RunRows(The(StartDateOf(cf)), SyncEpochOf(cf.uh_sync_epoch), v, td)

StoppedBeforeWrite(c) ==
    \/ c.pc = "metrics"
    \/ /\ c.pc \in {"loop", "fetched"}
       /\ c.dayLog # <<>>
       /\ c.dayLog[Len(c.dayLog)].updateFailed

\* That day.
StoppedDay(c) ==
    IF c.pc = "metrics" THEN c.uh_sync_date ELSE c.dayLog[Len(c.dayLog)].date

\* The rows of that day the invocation c had appended when it stopped.
StoppedRows(c) ==
    IF c.pc = "metrics"
    THEN MetricRows(SubSeq(WorkList(c.metrics_data), 1,
                           Len(WorkList(c.metrics_data)) - Len(c.work)),
                    c.last_uh_timestamp)
    ELSE MetricRows(WorkList(The(vendor[StoppedDay(c)])),
                    c.dayLog[Len(c.dayLog)].epochBefore)

BothRanFromSameWatermark ==
    /\ suspended # None
    /\ CleanRun
    /\ The(suspended).pc = "done"
    /\ The(suspended).result = Success(The(suspended).record_count)
    /\ The(suspended).start = start
    /\ The(suspended).target_date = target_date

\* C24: two invocations for one participant that read the same starting
\* watermark are not safe: when both are over, every row one uninterrupted
\* invocation appends from that watermark has been appended by each of
\* them, so the sink holds it twice.
ConcurrentRunsUploadTwice ==
    BothRanFromSameWatermark =>
        sink (-) start.sink =
            UninterruptedRows(start.mdh, vendor, target_date)
                (+) UninterruptedRows(start.mdh, vendor, target_date)

\* C24 witness: two such invocations are over and a row was uploaded by
\* both.
SameRowUploadedByBoth ==
    /\ BothRanFromSameWatermark
    /\ record_count > 0
    /\ The(suspended).record_count > 0
    /\ \E r \in BagToSet(sink (-) start.sink) : CopiesIn(r, sink (-) start.sink) = 2

\* The step leaves the day: the loop is at the next day and the sync
\* epoch, the persisted watermark, the sink and the record count are as
\* before.
DayLeftAlone ==
    /\ pc' = "loop"
    /\ uh_sync_date' = uh_sync_date + 1
    /\ last_uh_timestamp' = last_uh_timestamp
    /\ mdh' = mdh
    /\ sink' = sink
    /\ record_count' = record_count

\* A whitelisted metric other than the anchor has a value newer than epoch.
OtherMetricHasNewRows(data, epoch) ==
    \E i \in DOMAIN WorkList(data) :
        /\ WorkList(data)[i].type # "temp"
        /\ \E n \in DOMAIN WorkList(data)[i].values :
               WorkList(data)[i].values[n] > epoch

\* The payload has no metric of type temp, or none with values.
NoAnchorValues(data) ==
    \A i \in DOMAIN data : data[i].type = "temp" => data[i].values = <<>>

\* C25: the step taken after the fetch of a day whose payload has no
\* anchor metric, or an anchor without values, leaves the day alone.
AnchorlessDaySkipped ==
    [][ (pc = "fetched" /\ NoAnchorValues(metrics_data)) => DayLeftAlone ]_vars

\* C25 witness: a day without anchor values, in which another whitelisted
\* metric has data, was fetched and left; the loop is at the next day and
\* the day was not processed.
AnchorlessDayWithDataSkipped ==
    /\ pc = "loop" /\ ~dry_run
    /\ fetched # <<>>
    /\ fetched[Len(fetched)] = uh_sync_date - 1
    /\ metrics_data = The(vendor[uh_sync_date - 1])
    /\ NoAnchorValues(metrics_data)
    /\ OtherMetricHasNewRows(metrics_data, last_uh_timestamp)
    /\ \A i \in DOMAIN dayLog : dayLog[i].date # uh_sync_date - 1

\* The payload has anchor values and the last of them is not newer than
\* epoch.
AnchorNotNewer(data, epoch) ==
    /\ ~NoAnchorValues(data)
    /\ mmap(data)["temp"].last_timestamp <= epoch

\* C26: the step taken after the fetch of a day whose anchor's last
\* timestamp is less than or equal to the sync epoch leaves the day alone.
CaughtUpDaySkipped ==
    [][ (pc = "fetched" /\ AnchorNotNewer(metrics_data, last_uh_timestamp))
            => DayLeftAlone ]_vars

\* C26 witness: a day whose anchor was not newer than the sync epoch, and
\* in which another whitelisted metric has rows newer than it, was fetched
\* and left; the loop is at the next day and the day was not processed.
CaughtUpDayWithNewRowsSkipped ==
    /\ pc = "loop" /\ ~dry_run
    /\ fetched # <<>>
    /\ fetched[Len(fetched)] = uh_sync_date - 1
    /\ metrics_data = The(vendor[uh_sync_date - 1])
    /\ AnchorNotNewer(metrics_data, last_uh_timestamp)
    /\ OtherMetricHasNewRows(metrics_data, last_uh_timestamp)
    /\ \A i \in DOMAIN dayLog : dayLog[i].date # uh_sync_date - 1

NonRetryableIsSentNotRaised ==
    \A h \in lastError :
        ~is_retryable_error(h.error) =>
            /\ ~h.raised
            /\ h.sent
            /\ h.operation \in {"initialize_connections", "uh_api_get_metrics"}
            /\ dlqSends = 1
            /\ dlq <= 1
            /\ h.operation = "uh_api_get_metrics" =>
                   /\ result = Failure("Non-retryable UH API error")
                   /\ response = "200"

\* C28 witness: a NonRetryable error of the metric fetch was handled while
\* the dead letter queue took no record, and the invocation returned.
UndeliveredRecordSwallowed ==
    /\ pc = "done"
    /\ dlqSends = 1
    /\ dlq = 0
    /\ \E h \in lastError :
           /\ ~h.retryable
           /\ h.operation = "uh_api_get_metrics"
    /\ result = Failure("Non-retryable UH API error")

\* C29: a connection error, connect timeout or read timeout that carries
\* no HTTP status code is classified Retryable, whatever its message.
NetworkFailureIsRetryable ==
    \A e \in error :
        (/\ verdict # None
         /\ e.status = None
         /\ e.cls \in {"ConnectionError", "ConnectTimeout", "ReadTimeout"})
        => verdict = Some(TRUE)

\* C29 witness: a connect timeout without a status code and with no
\* keyword in its message was classified Retryable.
ConnectTimeoutClassified ==
    \E e \in error :
        /\ e.cls = "ConnectTimeout"
        /\ e.status = None
        /\ e.msg = {}
        /\ verdict = Some(TRUE)

\* C30: a botocore ClientError is classified Retryable when its code is a
\* throttling, service-unavailable or internal-server-error code and
\* NonRetryable when it is a validation, invalid-parameter or access-denied
\* code, whatever its message.
ServiceErrorDecidedByCode ==
    \A e \in error :
        (verdict # None /\ e.cls = "ClientError" /\ e.status = None) =>
            /\ e.code \in {"Throttling", "ServiceUnavailable", "InternalServerError"}
                   => verdict = Some(TRUE)
            /\ e.code \in {"ValidationException", "InvalidParameterException",
                           "AccessDenied"}
                   => verdict = Some(FALSE)

\* C30 witness: a ClientError with code AccessDenied whose message holds
\* the keyword "connection" was classified NonRetryable.
AccessDeniedClassified ==
    \E e \in error :
        /\ e.cls = "ClientError"
        /\ e.code = "AccessDenied"
        /\ "connection" \in e.msg
        /\ verdict = Some(FALSE)

\* No rule before the message keywords decides the error: it has no HTTP
\* status in a decided range, is no requests exception and is no service
\* error with a listed code.
DecidedByMessage(e) ==
    /\ ~StatusRetryable(e) /\ ~StatusPermanent(e)
    /\ e.cls \notin RequestExceptionClasses
    /\ ~(e.cls = "ClientError"
          /\ e.code \in {"Throttling", "ThrottledException", "ServiceUnavailable",
                         "InternalServerError", "ValidationException",
                         "InvalidParameterException", "AccessDenied"})

\* C31: an error decided by its message text is Retryable when the message
\* contains a connectivity/timeout/DNS keyword, also when it contains a
\* validation/parsing/schema/format keyword as well, and NonRetryable when
\* it contains a keyword of the second group and none of the first.
MessageKeywordsDecide ==
    \A e \in error : \A v \in verdict :
        DecidedByMessage(e) =>
            /\ e.msg \cap {"connection", "timeout", "network", "dns"} # {} => v = TRUE
            /\ (/\ e.msg \cap {"validation", "parse", "json", "schema", "format"} # {}
                /\ e.msg \cap {"connection", "timeout", "network", "dns"} = {})
               => v = FALSE

\* C31 witness: a custom exception whose message holds a keyword of both
\* groups was classified Retryable.
BothKeywordGroupsClassified ==
    \E e \in error :
        /\ DecidedByMessage(e)
        /\ e.cls = "CustomError"
        /\ {"connection", "json"} \subseteq e.msg
        /\ verdict = Some(TRUE)

\* The whitelisted entries among the first n entries of a Sleep object.
KeptSubKeys(o, n) ==
    SelectSeq(SubSeq(o.items, 1, n), LAMBDA it : it.key[1] \in WHITELISTED_TABLES)

\* The value a metric record carries for a bound of its parent.
Carried(o, k) == IF Get(o, k) # Null THEN Some(Get(o, k)) ELSE None

\* C32: the calls of _process_metric_data made for a Sleep metric are, in
\* order, one for each whitelisted sub-key of its object that the loop has
\* passed: the record has the sub-key as its type and destination table,
\* the sub-key's value as its object and the parent's bedtime_start and
\* bedtime_end; no call is made for another sub-key, none has the table
\* Sleep, and the payload's Sleep object is as it was fetched.
SleepSubKeysProcessedAlone ==
    sleep_pc # "" =>
        LET o == The(sleep_arg)
            kept == KeptSubKeys(o, sleep_pos - 1)
        IN /\ Len(sleep_calls) = Len(kept)
           /\ \A i \in DOMAIN sleep_calls :
                  /\ sleep_calls[i].table = kept[i].key[1]
                  /\ sleep_calls[i].metric.type = kept[i].key[1]
                  /\ sleep_calls[i].metric.object = kept[i].val
                  /\ sleep_calls[i].metric.bedtime_start = Carried(o, <<"bedtime_start">>)
                  /\ sleep_calls[i].metric.bedtime_end = Carried(o, <<"bedtime_end">>)
                  /\ sleep_calls[i].table # "Sleep"
           /\ sleep_obj = sleep_arg

\* C32 witness: a Sleep object with a whitelisted sub-key, one that is not
\* whitelisted and a bedtime_start was processed to its end with one call.
SleepWithBoundsProcessed ==
    /\ sleep_pc = "done"
    /\ Len(sleep_calls) = 1
    /\ sleep_calls[1].metric.bedtime_start = Some(Num(5))
    /\ sleep_calls[1].metric.bedtime_end = None
    /\ \E i \in DOMAIN The(sleep_arg).items :
           The(sleep_arg).items[i].key = <<"spo2">>

\* C33: in a run that is no dry run, the step after a successful fetch
\* either puts the vendor's payload of the day, as it was fetched, in the
\* archive under the day's date, or fails to and records no more than the
\* failure; either way the anchor then decides about the day as it would
\* have (a skipped day is archived too) and the invocation does not return.
RawPayloadArchivedBeforeSkip ==
    [][ (pc = "fetched" /\ ~dry_run) =>
           /\ \/ archive' = archive \cup
                     {ArchiveObject(uh_sync_date, The(vendor[uh_sync_date]))}
              \/ /\ archive' = archive
                 /\ failed' = failed \cup {"archive"}
                 /\ failures' # failures
           /\ pc' = IF AnchorMissing(metrics_data)
                       \/ AnchorCaughtUp(metrics_data, last_uh_timestamp)
                    THEN "loop" ELSE "metrics"
           /\ result' = result
           /\ response' = response ]_vars

\* C33 witness: a run that is no dry run ended with success; the archive
\* write of one day had failed, a later day was fetched, archived and then
\* skipped.
SkippedDayArchivedAfterFailure ==
    /\ pc = "done" /\ ~dry_run
    /\ result # None /\ The(result).success
    /\ failed = {"archive"}
    /\ \E o \in archive :
           /\ o.data = The(vendor[o.date])
           /\ \A i \in DOMAIN dayLog : dayLog[i].date # o.date
           /\ \E d \in 1..(o.date - 1) :
                  /\ \E i \in DOMAIN fetched : fetched[i] = d
                  /\ \A a \in archive : a.date # d

\* The vendor data the days may hold: what was fetched, and for a day not
\* fetched yet any payload the vendor may answer with.
VendorData ==
    {v \in [Days -> {Some(p) : p \in UNION {DayPayloads(d) : d \in Days}}] :
        \A d \in Days : IF vendor[d] # None THEN v[d] = vendor[d]
                        ELSE The(v[d]) \in DayPayloads(d)}

\* C34: the row count a dry run reports is the number of rows a run that is
\* no dry run, and in which no call fails, uploads and reports from the
\* same watermark, for the same target date and the same vendor data.
DryRunCountsWholeWindow ==
    (dry_run /\ pc = "done" /\ result # None /\ The(result).success) =>
        \A v \in VendorData :
            The(result).record_count =
                BagCardinality(UninterruptedRows(start.mdh, v, target_date))

\* C35: with fill=True a column that had length 1 before the fill step
\* holds its one value as many times as the longest column is long, and
\* every other column (at the longest length, shorter, or empty) is the
\* column as it was before the fill step.
FillBroadcastsSingleColumnsOnly ==
    \A cols \in flattened :
        fill =>
            LET longest == IF Longest(Unfilled) > 1 THEN Longest(Unfilled) ELSE 1 IN
            /\ DOMAIN cols = DOMAIN Unfilled
            /\ \A k \in DOMAIN cols :
                   cols[k] = IF Len(Unfilled[k]) = 1
                             THEN [i \in 1..longest |-> Unfilled[k][1]]
                             ELSE Unfilled[k]

\* C35 witness: a call with fill=True on a record with an empty column, a
\* column of length 1 and a column of length 2 left the empty column empty
\* and the longest as it was.
EmptyColumnBesideBroadcast ==
    \E cols \in flattened :
        /\ fill
        /\ Lengths(Unfilled) = {0, 1, 2}
        /\ Lengths(cols) = {0, 2}
        /\ \E k \in DOMAIN cols : Len(Unfilled[k]) = 1 /\ Len(cols[k]) = 2

\* The custom field is there and holds more than the empty string.
IsSet(x) == x \notin {None, Some(EmptyString)}

NoRowUploadedTwice ==
    \A r \in BagToSet(sink) : CopiesIn(r, sink) = 1

\* The entry of results that belongs to a record: the result of its
\* participant, or the entry for an unknown participant when the message was
\* refused or the synchronisation raised.
EntryOf(record, entry) ==
    IF record.message = "valid"
    THEN entry.participant_id \in {record.participant_id, "unknown"}
    ELSE entry = UnknownParticipant

\* C38 (as claimed): the summary process_sns_messages returns counts every
\* record of the batch, as a success or as a failure, and holds one entry
\* of results for each.
SummaryCountsEveryRecord ==
    \A s \in summary :
        /\ s.participants_processed = Some(Len(sns_records))
        /\ s.successful_uploads # None /\ s.failed_uploads # None
        /\ The(s.successful_uploads) + The(s.failed_uploads) = Len(sns_records)
        /\ s.results # None
        /\ Len(The(s.results)) = Len(sns_records)

\* C38 (amended): once _initialize_connections has returned, the records
\* are handled in order, each adding one entry to results and one to
\* either counter whether it fails or not, and for a batch that is not
\* empty the summary has participants_processed = the number of records =
\* successful_uploads + failed_uploads and one entry of results for each
\* record, in order; for an empty batch the counts are 0 and there is no
\* results key; when _initialize_connections raises no record is handled
\* and the summary has success False and no counts.
SummaryCountsEveryRecordOnceConnected ==
    /\ sns_pc \in {"records", "returned"} =>
          /\ Len(results) = successful_uploads + failed_uploads
          /\ Len(results) = IF sns_pos = 0 THEN 0 ELSE sns_pos - 1
          /\ \A i \in DOMAIN results : EntryOf(sns_records[i], results[i])
          /\ successful_uploads =
                 Cardinality({i \in DOMAIN results : results[i].success})
    /\ \A s \in summary :
          IF ~s.success
          THEN s = FailedSummary /\ results = <<>> /\ sns_pos = 0
          ELSE /\ s.participants_processed = Some(Len(sns_records))
               /\ The(s.successful_uploads) + The(s.failed_uploads) = Len(sns_records)
               /\ IF sns_records = <<>> THEN s.results = None
                  ELSE /\ s.results = Some(results)
                       /\ Len(results) = Len(sns_records)

\* C38 witness: a batch of two records was processed to its end; the first
\* record was refused, the second one was synchronised with success.
LaterRecordProcessedAfterFailure ==
    /\ sns_pc = "returned"
    /\ Len(sns_records) = 2
    /\ sns_records[1].message = "invalid_json"
    /\ summary # None /\ The(summary).success
    /\ results[1] = UnknownParticipant
    /\ results[2].success /\ results[2].participant_id = sns_records[2].participant_id
    /\ successful_uploads = 1 /\ failed_uploads = 1

====
